---- MODULE Spec2Model ----
(***************************************************************************)
(* BiblioParser: the record extraction engine (parsers_pt.py), the field   *)
(* normalizers (parsers_pt.py, utils_pt.py) and the duplicate detector     *)
(* (duplicate_remover.py), the abstract backfill (abstract_fetcher.py) and *)
(* the file loop of process_files (app_pt.py), as a state machine.         *)
(*                                                                         *)
(* A Python str is a sequence of one-character strings.  A DataFrame with  *)
(* its default RangeIndex is a sequence of rows; position p of the         *)
(* sequence is the row with index label p - 1.                             *)
(***************************************************************************)
EXTENDS Integers, Sequences, FiniteSets, TLC

VARIABLES
    df,               \* remove_duplicates: the frame being deduplicated
    idx,              \* remove_duplicates: position of the iterrows() loop
    processed_ids,    \* remove_duplicates: processed_ids
    duplicates_info,  \* remove_duplicates: duplicates_info (the audit list)
    groups,           \* remove_duplicates: every all_matches with its best_article_idx
    df_cleaned,       \* remove_duplicates: the returned frame
    run,              \* 1: the caller's frame, 2: the survivors fed back
    pc,               \* where the running operation stands
    input,            \* the argument of the function under check
    output,           \* what the function returned for it
    fetched_count,    \* fetch_abstracts_batch: fetched_count
    calls,            \* fetch_abstracts_batch: the calls of progress_callback so far
    attempt,          \* _fetch_from_crossref: attempt of the retry loop
    requests,         \* _fetch_from_crossref: requests.get calls of the running lookup
    lookup_abstract   \* fetch_abstract: abstract

dedupVars == <<df, idx, processed_ids, duplicates_info, groups, df_cleaned, run>>

fnVars == <<input, output>>

fetchVars == <<fetched_count, calls, attempt, requests, lookup_abstract>>

vars == <<dedupVars, fnVars, fetchVars, pc>>

-----------------------------------------------------------------------------
(* Bounds of the model *)

MaxRecords == 3
MaxRows == 9

-----------------------------------------------------------------------------
(* Python str primitives *)

UpperLetters ==
    <<"A","B","C","D","E","F","G","H","I","J","K","L","M",
      "N","O","P","Q","R","S","T","U","V","W","X","Y","Z">>

LowerLetters ==
    <<"a","b","c","d","e","f","g","h","i","j","k","l","m",
      "n","o","p","q","r","s","t","u","v","w","x","y","z">>

Digits == {"0","1","2","3","4","5","6","7","8","9"}

Range(s) == {s[i] : i \in DOMAIN s}

\* the characters str.isspace, str.strip(), str.split() and \s take as whitespace
SpaceChars == {" ", "\t", "\n", "\r", "\f"}

IsSpace(c) == c \in SpaceChars

\* \w of the re module: letters, digits and the underscore
WordChars ==
    Range(UpperLetters) \cup Range(LowerLetters) \cup Digits \cup {"_", "ç", "ã"}

\* str.lower of one character
LowerChar(c) ==
    IF c \in Range(UpperLetters)
    THEN LowerLetters[CHOOSE i \in DOMAIN UpperLetters : UpperLetters[i] = c]
    ELSE c

\* str.lower
Lower(s) == [i \in DOMAIN s |-> LowerChar(s[i])]

\* "".join(c for c in s if c in keep)
RECURSIVE Filter(_, _)
Filter(s, keep) ==
    IF s = <<>> THEN <<>>
    ELSE (IF Head(s) \in keep THEN <<Head(s)>> ELSE <<>>) \o Filter(Tail(s), keep)

\* str.lstrip(chars) / str.rstrip(chars)
RECURSIVE LStripBy(_, _)
LStripBy(s, chars) ==
    IF s # <<>> /\ Head(s) \in chars THEN LStripBy(Tail(s), chars) ELSE s

RECURSIVE RStripBy(_, _)
RStripBy(s, chars) ==
    IF s # <<>> /\ s[Len(s)] \in chars
    THEN RStripBy(SubSeq(s, 1, Len(s) - 1), chars)
    ELSE s

\* str.strip()
Strip(s) == RStripBy(LStripBy(s, SpaceChars), SpaceChars)

\* s.startswith(p)
StartsWith(s, p) == Len(s) >= Len(p) /\ SubSeq(s, 1, Len(p)) = p

\* s.replace(old, ""): every non-overlapping occurrence, left to right, one pass
RECURSIVE Remove(_, _)
Remove(s, old) ==
    IF Len(s) < Len(old) THEN s
    ELSE IF StartsWith(s, old) THEN Remove(SubSeq(s, Len(old) + 1, Len(s)), old)
    ELSE <<Head(s)>> \o Remove(Tail(s), old)

\* s.split(): the maximal runs of non-whitespace, in order
RECURSIVE SplitWords(_, _)
SplitWords(s, cur) ==
    IF s = <<>> THEN (IF cur = <<>> THEN <<>> ELSE <<cur>>)
    ELSE IF IsSpace(Head(s))
         THEN (IF cur = <<>> THEN <<>> ELSE <<cur>>) \o SplitWords(Tail(s), <<>>)
         ELSE SplitWords(Tail(s), Append(cur, Head(s)))

Split(s) == SplitWords(s, <<>>)

\* sep.join(parts)
RECURSIVE Join(_, _)
Join(sep, parts) ==
    IF parts = <<>> THEN <<>>
    ELSE IF Len(parts) = 1 THEN parts[1]
    ELSE parts[1] \o sep \o Join(sep, Tail(parts))

\* re.sub(r"\s+", " ", s): each maximal whitespace run becomes one space
RECURSIVE CollapseSpace(_, _)
CollapseSpace(s, inRun) ==
    IF s = <<>> THEN <<>>
    ELSE IF IsSpace(Head(s))
         THEN (IF inRun THEN <<>> ELSE <<" ">>) \o CollapseSpace(Tail(s), TRUE)
         ELSE <<Head(s)>> \o CollapseSpace(Tail(s), FALSE)

\* the members of a set of ints in ascending order (re.finditer yields its matches
\* left to right)
RECURSIVE Ascending(_)
Ascending(S) ==
    IF S = {} THEN <<>>
    ELSE LET m == CHOOSE x \in S : \A y \in S : x <= y
         IN <<m>> \o Ascending(S \ {m})

\* list(set(listed)) of row positions, the row at position i having the index label
\* i - 1: CPython adds the labels in list order to a hash table and walks the table
\* in slot order. A label hashes to itself. Up to four labels live in a table of 8
\* slots: a label goes to slot (label mod 8) or, that slot taken, down the probe
\* sequence slot -> (5 * slot + 1) mod 8. The fifth label moves the set to a table
\* of 32 slots, where every label below 32 sits in the slot of its own value.
SetToList(listed) ==
    LET free == 0
        add(table, position) ==
            LET probe[k \in 0..7] ==
                    IF k = 0 THEN (position - 1) % 8 ELSE (5 * probe[k - 1] + 1) % 8
                first == CHOOSE k \in 0..7 :
                            /\ table[probe[k]] = free
                            /\ \A j \in 0..(k - 1) : table[probe[j]] # free
            IN IF \E slot \in 0..7 : table[slot] = position THEN table
               ELSE [table EXCEPT ![probe[first]] = position]
        filled[k \in 0..Len(listed)] ==
            IF k = 0 THEN [slot \in 0..7 |-> free] ELSE add(filled[k - 1], listed[k])
        slots == Ascending({slot \in 0..7 : filled[Len(listed)][slot] # free})
    IN IF Cardinality(Range(listed)) > 4 THEN Ascending(Range(listed))
       ELSE [k \in DOMAIN slots |-> filled[Len(listed)][slots[k]]]

\* the sentinel "Sem informação"
SemInformacao == <<"S","e","m"," ","i","n","f","o","r","m","a","ç","ã","o">>

\* the prefixes the DOI cleaners remove
PrefixDoiLower == <<"d","o","i",":">>
PrefixDoiUpper == <<"D","O","I",":">>
PrefixHttps == <<"h","t","t","p","s",":","/","/","d","o","i",".","o","r","g","/">>
PrefixHttpDx == <<"h","t","t","p",":","/","/","d","x",".","d","o","i",".","o","r","g","/">>

\* Python's None, where a function returns Optional[str]: no str has this element
None == <<"None">>

-----------------------------------------------------------------------------
(* parsers_pt.py and utils_pt.py: the DOI cleaners *)

\* the number of leading characters of s that are in chars
RECURSIVE LeadingRun(_, _)
LeadingRun(s, chars) ==
    IF s # <<>> /\ Head(s) \in chars THEN 1 + LeadingRun(Tail(s), chars) ELSE 0

\* re.match(r"^10\.\d+/.+", s)
MatchesDoiPattern(s) ==
    /\ StartsWith(s, <<"1","0",".">>)
    /\ LET rest == SubSeq(s, 4, Len(s))
           d == LeadingRun(rest, Digits)
       IN /\ d >= 1
          /\ Len(rest) >= d + 2
          /\ rest[d + 1] = "/"
          /\ rest[d + 2] # "\n"

\* doi after the two replace/strip lines and the rstrip of _clean_doi
StripDoi(doi) ==
    RStripBy(Remove(Remove(Strip(Remove(Remove(doi, PrefixDoiLower), PrefixDoiUpper)),
                           PrefixHttps),
                    PrefixHttpDx),
             {".", ",", ";"})

\* TXTParser._clean_doi and RISParser._clean_doi (the same code twice)
_clean_doi(doi) ==
    IF doi = <<>> THEN None
    ELSE IF MatchesDoiPattern(StripDoi(doi)) THEN StripDoi(doi) ELSE None

\* what an extractor stores in the DOI field for a raw value: the field keeps the
\* sentinel when _clean_doi returns None
DoiField(raw) == IF _clean_doi(raw) = None THEN SemInformacao ELSE _clean_doi(raw)

\* utils_pt.normalize_doi
normalize_doi(doi_str) ==
    IF doi_str = <<>> \/ doi_str = SemInformacao THEN SemInformacao
    ELSE IF StripDoi(doi_str) # <<>> THEN StripDoi(doi_str) ELSE SemInformacao

\* utils_pt.validate_doi_format
validate_doi_format(doi) ==
    IF doi = <<>> \/ doi = SemInformacao THEN FALSE ELSE MatchesDoiPattern(Strip(doi))

\* utils_pt.calculate_similarity_score up to its last two assignments: the sizes
\* <<intersection, union>> of the word sets, <<0, 1>> where it returns 0.0 early
calculate_similarity_score(text1, text2) ==
    IF text1 = <<>> \/ text2 = <<>> \/ text1 = SemInformacao \/ text2 = SemInformacao
    THEN <<0, 1>>
    ELSE LET words1 == Range(Split(Filter(Lower(text1), WordChars \cup SpaceChars)))
             words2 == Range(Split(Filter(Lower(text2), WordChars \cup SpaceChars)))
         IN IF words1 = {} \/ words2 = {} THEN <<0, 1>>
            ELSE <<Cardinality(words1 \cap words2), Cardinality(words1 \cup words2)>>

-----------------------------------------------------------------------------
(* parsers_pt.py: TXTParser._detect_format and TXTParser._split_records *)

\* s[p..] (s[p:] of Python, p counted from 1)
From(s, p) == SubSeq(s, p, Len(s))

\* ^ under re.MULTILINE: p is the start of the text or follows a newline
AtLineStart(text, p) == p = 1 \/ text[p - 1] = "\n"

\* str.split("\n"): the lines of a text, the empty ones too
RECURSIVE SplitLines(_, _)
SplitLines(s, cur) ==
    IF s = <<>> THEN <<cur>>
    ELSE IF Head(s) = "\n" THEN <<cur>> \o SplitLines(Tail(s), <<>>)
    ELSE SplitLines(Tail(s), Append(cur, Head(s)))

\* the length of the match of r"Record #\d+ of \d+" at p, 0 if there is none
RecordOfMatch(text, p) ==
    LET marker == <<"R","e","c","o","r","d"," ","#">>
        rest1 == From(text, p + Len(marker))
        d1 == LeadingRun(rest1, Digits)
        rest2 == From(rest1, d1 + 1)
        d2 == LeadingRun(From(rest2, 5), Digits)
    IN IF /\ StartsWith(From(text, p), marker)
          /\ d1 >= 1
          /\ StartsWith(rest2, <<" ","o","f"," ">>)
          /\ d2 >= 1
       THEN Len(marker) + d1 + 4 + d2
       ELSE 0

\* r"RECORD \d+" matches at p
RecordNumberAt(text, p) ==
    /\ StartsWith(From(text, p), <<"R","E","C","O","R","D"," ">>)
    /\ LeadingRun(From(text, p + 7), Digits) >= 1

\* r"^TITLE\s*$" under re.MULTILINE matches at p
TitleLineAt(text, p) ==
    /\ AtLineStart(text, p)
    /\ StartsWith(From(text, p), <<"T","I","T","L","E">>)
    /\ LET spaces == LeadingRun(From(text, p + 5), SpaceChars)
       IN \E k \in 0..spaces : p + 5 + k > Len(text) \/ text[p + 5 + k] = "\n"

\* the position after the last newline of the whitespace run that starts at p, 0 if
\* the run has no newline
AfterLastNewline(text, p) ==
    LET spaces == LeadingRun(From(text, p), SpaceChars)
        ends == {q \in p..(p + spaces - 1) : text[q] = "\n"}
    IN IF ends = {} THEN 0 ELSE (CHOOSE q \in ends : \A r \in ends : r <= q) + 1

\* r"\nER\s*\n" matches at p
ErLineAt(text, p) ==
    /\ StartsWith(From(text, p), <<"\n","E","R">>)
    /\ AfterLastNewline(text, p + 3) > 0

\* r"(?i)^<label>\s*:" under re.MULTILINE matches at p
LabelAt(text, p, label) ==
    /\ AtLineStart(text, p)
    /\ StartsWith(Lower(From(text, p)), label)
    /\ LET q == p + Len(label) + LeadingRun(From(text, p + Len(label)), SpaceChars)
       IN q <= Len(text) /\ text[q] = ":"

LabelAuthor == <<"a","u","t","h","o","r">>
LabelAuthors == <<"a","u","t","h","o","r","s">>
LabelTitle == <<"t","i","t","l","e">>
LabelYear == <<"y","e","a","r">>
LabelAbstract == <<"a","b","s","t","r","a","c","t">>
LabelDoi == <<"d","o","i">>

\* full_field_patterns: each entry the labels one pattern accepts
full_field_patterns ==
    << {LabelAuthor, LabelAuthors}, {LabelTitle}, {LabelYear}, {LabelAbstract}, {LabelDoi} >>

\* re.search(pattern, text_content, re.MULTILINE) for one full-field pattern
FullFieldFound(text, labels) ==
    \E p \in DOMAIN text : \E label \in labels : LabelAt(text, p, label)

_detect_format(text_content) ==
    IF \E p \in DOMAIN text_content : RecordOfMatch(text_content, p) > 0
    THEN "citation_export"
    ELSE IF /\ \E p \in DOMAIN text_content : RecordNumberAt(text_content, p)
            /\ \E p \in DOMAIN text_content : TitleLineAt(text_content, p)
    THEN "records_format"
    ELSE IF \E p \in DOMAIN text_content : ErLineAt(text_content, p)
    THEN "er_terminated"
    ELSE IF Cardinality({k \in DOMAIN full_field_patterns :
                            FullFieldFound(text_content, full_field_patterns[k])}) >= 2
    THEN "full_fields"
    ELSE "pubmed"

\* a slip: every span runs to the end of the text
RECURSIVE SpansToEnd(_, _)
SpansToEnd(text, record_positions) ==
    IF record_positions = <<>> THEN <<>>
    ELSE LET record == Strip(SubSeq(text, record_positions[1], Len(text)))
         IN (IF record # <<>> THEN <<record>> ELSE <<>>)
            \o SpansToEnd(text, Tail(record_positions))

\* the spans from each position of record_positions to the next (or to the end of
\* the text), stripped, the empty ones left out
RECURSIVE SpansFrom(_, _)
SpansFrom(text, record_positions) ==
    IF record_positions = <<>> THEN <<>>
    ELSE LET start == record_positions[1]
             end == IF Len(record_positions) > 1 THEN record_positions[2] - 1 ELSE Len(text)
             record == Strip(SubSeq(text, start, end))
         IN (IF record # <<>> THEN <<record>> ELSE <<>>)
            \o SpansFrom(text, Tail(record_positions))

\* the end (position after) of the match of r"\nER\s*-?\s*\n" at p, 0 if none:
\* the dash is taken when a newline follows it in the whitespace after it
ErSplitMatch(text, p) ==
    IF ~StartsWith(From(text, p), <<"\n","E","R">>) THEN 0
    ELSE LET q == p + 3 + LeadingRun(From(text, p + 3), SpaceChars)
         IN IF q <= Len(text) /\ text[q] = "-" /\ AfterLastNewline(text, q + 1) > 0
            THEN AfterLastNewline(text, q + 1)
            ELSE AfterLastNewline(text, p + 3)

\* re.split(r"\nER\s*-?\s*\n", text): pieces between the matches, left to right
RECURSIVE ErSplit(_, _, _)
ErSplit(text, start, p) ==
    IF p > Len(text) THEN <<SubSeq(text, start, Len(text))>>
    ELSE IF ErSplitMatch(text, p) > 0
         THEN <<SubSeq(text, start, p - 1)>>
              \o ErSplit(text, ErSplitMatch(text, p), ErSplitMatch(text, p))
         ELSE ErSplit(text, start, p + 1)

\* [r.strip() for r in records if r.strip()]
StripNonEmpty(records) ==
    LET stripped == [k \in DOMAIN records |-> Strip(records[k])]
    IN SelectSeq(stripped, LAMBDA r : r # <<>>)

_split_records(text_content, format_type) ==
    IF format_type = "citation_export"
    THEN SpansFrom(text_content,
                   Ascending({p \in DOMAIN text_content : RecordOfMatch(text_content, p) > 0}))
    ELSE IF format_type = "records_format"
    THEN SpansFrom(text_content,
                   Ascending({p \in DOMAIN text_content :
                                AtLineStart(text_content, p) /\ RecordNumberAt(text_content, p)}))
    ELSE IF format_type = "er_terminated"
    THEN StripNonEmpty(ErSplit(text_content, 1, 1))
    ELSE SpansFrom(text_content,
                   Ascending({p \in DOMAIN text_content :
                                /\ AtLineStart(text_content, p)
                                /\ StartsWith(From(text_content, p), <<"P","M","I","D","-">>)}))

-----------------------------------------------------------------------------
(* parsers_pt.py: the field cleaners and the _process_*_field methods *)

\* a character that is neither printable nor whitespace: U+0000, written by name
NonPrintableChars == {"NUL"}

\* the position of the first ">" at or after p, 0 if there is none
RECURSIVE NextClose(_, _)
NextClose(s, p) ==
    IF p > Len(s) THEN 0 ELSE IF s[p] = ">" THEN p ELSE NextClose(s, p + 1)

\* re.sub(r"<[^>]+>", "", s) from position p on
RECURSIVE StripTags(_, _)
StripTags(s, p) ==
    IF p > Len(s) THEN <<>>
    ELSE IF s[p] = "<" /\ NextClose(s, p + 1) > p + 1
         THEN StripTags(s, NextClose(s, p + 1) + 1)
         ELSE <<s[p]>> \o StripTags(s, p + 1)

\* "".join(char for char in s if char.isprintable() or char.isspace())
DropNonPrintable(s) == SelectSeq(s, LAMBDA c : c \notin NonPrintableChars)

\* abstract after the four cleaning steps of _clean_abstract
CleanedAbstract(abstract) ==
    Strip(DropNonPrintable(Join(<<" ">>, Split(StripTags(abstract, 1)))))

\* TXTParser._clean_abstract and RISParser._clean_abstract (the same code twice)
_clean_abstract(abstract) ==
    IF abstract = <<>> THEN None
    ELSE IF Len(CleanedAbstract(abstract)) > 10 THEN CleanedAbstract(abstract) ELSE None

\* \b at the boundary before position p of s (p = Len(s) + 1: the end)
WordBoundary(s, p) ==
    LET before == p > 1 /\ s[p - 1] \in WordChars
        after == p <= Len(s) /\ s[p] \in WordChars
    IN before # after

\* r"\b(19|20)\d{2}\b" matches at p
YearAt(s, p) ==
    /\ p + 3 <= Len(s)
    /\ WordBoundary(s, p)
    /\ SubSeq(s, p, p + 1) \in {<<"1","9">>, <<"2","0">>}
    /\ s[p + 2] \in Digits /\ s[p + 3] \in Digits
    /\ WordBoundary(s, p + 4)

\* re.search(r"\b(19|20)\d{2}\b", s): the first match, None if there is none
YearSearch(s) ==
    LET found == {p \in DOMAIN s : YearAt(s, p)}
        first == CHOOSE p \in found : \A q \in found : p <= q
    IN IF found = {} THEN None ELSE SubSeq(s, first, first + 3)

\* content.isdigit() and len(content) == 4
IsFourDigits(content) == Len(content) = 4 /\ \A k \in 1..4 : content[k] \in Digits

\* the year branch of the citation-export, records and full-fields dialects
YearOrDigits(article, content) ==
    IF YearSearch(content) # None THEN [article EXCEPT !.Year = YearSearch(content)]
    ELSE IF IsFourDigits(content) THEN [article EXCEPT !.Year = content]
    ELSE article

\* the year branch of the ER-terminated and PubMed dialects
YearOnly(article, content) ==
    IF YearSearch(content) # None THEN [article EXCEPT !.Year = YearSearch(content)]
    ELSE article

\* the DOI branch of every dialect
SetDoi(article, content) ==
    IF _clean_doi(content) # None THEN [article EXCEPT !.DOI = _clean_doi(content)]
    ELSE article

\* the abstract branch of every dialect
SetAbstract(article, content) ==
    IF _clean_abstract(content) # None
    THEN [article EXCEPT !.Abstract = _clean_abstract(content)]
    ELSE article

\* the author branch of the dialects with repeatable author tags
AddAuthor(article, content) ==
    IF article.Authors = SemInformacao THEN [article EXCEPT !.Authors = content]
    ELSE [article EXCEPT !.Authors = article.Authors \o <<",", " ">> \o content]

\* the article every extractor starts from
EmptyArticle ==
    [Title |-> SemInformacao, Authors |-> SemInformacao, Year |-> SemInformacao,
     DOI |-> SemInformacao, Abstract |-> SemInformacao]

_process_citation_export_field(article, field_code, raw) ==
    LET content == Strip(raw)
    IN IF content = <<>> THEN article
       ELSE IF field_code = <<"T","I">> THEN [article EXCEPT !.Title = content]
       ELSE IF field_code = <<"A","U">> THEN AddAuthor(article, content)
       ELSE IF field_code = <<"Y","R">> THEN YearOrDigits(article, content)
       ELSE IF field_code = <<"D","O","I">> THEN SetDoi(article, content)
       ELSE IF field_code = <<"A","B">> THEN SetAbstract(article, content)
       ELSE article

FieldTitle == <<"T","I","T","L","E">>
FieldAuthorNames == <<"A","U","T","H","O","R"," ","N","A","M","E","S">>
FieldPublicationYear ==
    <<"P","U","B","L","I","C","A","T","I","O","N"," ","Y","E","A","R">>
FieldAbstract == <<"A","B","S","T","R","A","C","T">>
FieldDoi == <<"D","O","I">>

_process_records_field(article, field_name, raw) ==
    LET content == Strip(raw)
    IN IF content = <<>> THEN article
       ELSE IF field_name = FieldTitle THEN [article EXCEPT !.Title = content]
       ELSE IF field_name = FieldAuthorNames THEN [article EXCEPT !.Authors = content]
       ELSE IF field_name = FieldPublicationYear THEN YearOrDigits(article, content)
       ELSE IF field_name = FieldDoi THEN SetDoi(article, content)
       ELSE IF field_name = FieldAbstract THEN SetAbstract(article, content)
       ELSE article

_process_full_field(article, field_name, raw) ==
    LET content == Strip(raw)
        name == Lower(field_name)
    IN IF content = <<>> THEN article
       ELSE IF name = LabelTitle THEN [article EXCEPT !.Title = content]
       ELSE IF name \in {LabelAuthors, LabelAuthor} THEN [article EXCEPT !.Authors = content]
       ELSE IF name = LabelYear THEN YearOrDigits(article, content)
       ELSE IF name = LabelDoi THEN SetDoi(article, content)
       ELSE IF name = LabelAbstract THEN SetAbstract(article, content)
       ELSE article

_process_er_field(article, field_code, raw) ==
    LET content == Strip(raw)
    IN IF content = <<>> THEN article
       ELSE IF field_code = <<"T","I">> THEN [article EXCEPT !.Title = content]
       ELSE IF field_code \in {<<"A","U">>, <<"A","1">>, <<"A","2">>}
            THEN AddAuthor(article, content)
       ELSE IF field_code \in {<<"P","Y">>, <<"Y","1">>} THEN YearOnly(article, content)
       ELSE IF field_code \in {<<"D","I">>, <<"D","O">>} THEN SetDoi(article, content)
       ELSE IF field_code = <<"A","B">> THEN SetAbstract(article, content)
       ELSE article

\* "[doi]" in any letter case stands at q
DoiTagAt(s, q) == StartsWith(Lower(From(s, q)), <<"[","d","o","i","]">>)

\* group(1) of re.search(r"(.+?)\s*\[doi\]", content, re.IGNORECASE), None if there
\* is no match: the text before the first tag that has a character before it,
\* without the whitespace before the tag, and never less than one character
DoiTagged(content) ==
    LET tags == {q \in 2..Len(content) : DoiTagAt(content, q)}
        q == CHOOSE t \in tags : \A u \in tags : t <= u
        kept == RStripBy(SubSeq(content, 1, q - 1), SpaceChars)
    IN IF tags = {} THEN None
       ELSE IF kept = <<>> THEN <<content[1]>>
       ELSE kept

_process_pubmed_field(article, field_code, raw) ==
    LET content == Strip(raw)
    IN IF content = <<>> THEN article
       ELSE IF field_code = <<"T","I">> THEN [article EXCEPT !.Title = content]
       ELSE IF field_code \in {<<"A","U">>, <<"F","A","U">>} THEN AddAuthor(article, content)
       ELSE IF field_code = <<"D","P">> THEN YearOnly(article, content)
       ELSE IF field_code = <<"A","B">> THEN SetAbstract(article, content)
       ELSE IF field_code \in {<<"A","I","D">>, <<"L","I","D">>}
            THEN (IF DoiTagged(content) # None
                  THEN SetDoi(article, Strip(DoiTagged(content)))
                  ELSE article)
       ELSE article

-----------------------------------------------------------------------------
(* parsers_pt.py: the five extractors of TXTParser, each a loop over the lines of
   one record with a current field and the content gathered for it *)

\* [group] if group else []
IfAny(group) == IF group # <<>> THEN <<group>> ELSE <<>>

\* line.startswith("  ") or line.startswith("\t")
Indented(line) == StartsWith(line, <<" "," ">>) \/ StartsWith(line, <<"\t">>)

CitationExportCodes ==
    { <<"I","D">>, <<"A","U">>, <<"T","I">>, <<"S","O">>, <<"Y","R">>, <<"X","R">>,
      <<"P","T">>, <<"K","Y">>, <<"A","B">>, <<"D","O","I">>, <<"U","S">> }

\* group(1) of re.match(r"^(ID|AU|TI|SO|YR|XR|PT|KY|AB|DOI|US):\s*(.*)$", line), None
\* if the line does not match
CitationExportCode(line) ==
    IF \E code \in CitationExportCodes : StartsWith(line, code \o <<":">>)
    THEN CHOOSE code \in CitationExportCodes : StartsWith(line, code \o <<":">>)
    ELSE None

RECURSIVE CitationExportLines(_, _, _, _)
CitationExportLines(lines, article, current_field, current_content) ==
    \* if current_field and current_content: self._process_citation_export_field(...)
    LET flushed ==
            IF current_field # None /\ current_content # <<>>
            THEN _process_citation_export_field(article, current_field, Join(<<" ">>, current_content))
            ELSE article
    IN IF lines = <<>>
       THEN flushed
       ELSE LET line == Strip(Head(lines))
                code == CitationExportCode(line)
            IN IF line = <<>> \/ StartsWith(line, <<"R","e","c","o","r","d"," ","#">>)
               THEN CitationExportLines(Tail(lines), article, current_field, current_content)
               ELSE IF code # None
               THEN CitationExportLines(
                        Tail(lines),
                        flushed,
                        code,
                        IfAny(LStripBy(From(line, Len(code) + 2), SpaceChars)))
               ELSE IF current_field # None
               THEN CitationExportLines(Tail(lines), article, current_field,
                                        Append(current_content, line))
               ELSE CitationExportLines(Tail(lines), article, current_field, current_content)

_extract_citation_export_format(record) ==
    CitationExportLines(SplitLines(record, <<>>), EmptyArticle, None, <<>>)

RecordsFieldNames ==
    {FieldTitle, FieldAuthorNames, FieldPublicationYear, FieldAbstract, FieldDoi}

RECURSIVE RecordsLines(_, _, _, _)
RecordsLines(lines, article, current_field, current_content) ==
    \* if current_field and current_content: self._process_records_field(...)
    LET flushed ==
            IF current_field # None /\ current_content # <<>>
            THEN _process_records_field(article, current_field, Join(<<" ">>, current_content))
            ELSE article
    IN IF lines = <<>>
       THEN flushed
       ELSE LET line == Head(lines)
            IN IF \/ Strip(line) = <<>>
                  \/ StartsWith(Strip(line), <<"R","E","C","O","R","D"," ">>)
               THEN RecordsLines(Tail(lines), article, current_field, current_content)
               ELSE IF Strip(line) \in RecordsFieldNames
               THEN RecordsLines(Tail(lines),
                                 flushed,
                                 Strip(line), <<>>)
               ELSE IF current_field # None /\ Indented(line)
               THEN RecordsLines(Tail(lines), article, current_field,
                                 Append(current_content, Strip(line)))
               ELSE RecordsLines(Tail(lines), article, current_field, current_content)

_extract_records_format(record) ==
    RecordsLines(SplitLines(record, <<>>), EmptyArticle, None, <<>>)

FullFieldLabels ==
    {LabelAuthors, LabelAuthor, LabelTitle, LabelYear, LabelDoi, LabelAbstract}

\* group(1).lower() of re.match(r"(?i)^(Authors?|Title|Year|DOI|Abstract)\s*:\s*(.*)$",
\* line), None if the line does not match
FullFieldLabel(line) ==
    IF \E label \in FullFieldLabels : LabelAt(line, 1, label)
    THEN CHOOSE label \in FullFieldLabels : LabelAt(line, 1, label)
    ELSE None

\* group(2) of that match: what follows the colon and the whitespace after it
FullFieldValue(line, label) ==
    LET colon == Len(label) + LeadingRun(From(line, Len(label) + 1), SpaceChars) + 1
    IN LStripBy(From(line, colon + 1), SpaceChars)

RECURSIVE FullFieldsLines(_, _, _, _)
FullFieldsLines(lines, article, current_field, current_content) ==
    \* if current_field and current_content: self._process_full_field(...)
    LET flushed ==
            IF current_field # None /\ current_content # <<>>
            THEN _process_full_field(article, current_field, Join(<<" ">>, current_content))
            ELSE article
    IN IF lines = <<>>
       THEN flushed
       ELSE LET line == Head(lines)
                label == FullFieldLabel(line)
            IN IF label # None
               THEN FullFieldsLines(
                        Tail(lines),
                        flushed,
                        label,
                        IF Strip(FullFieldValue(line, label)) # <<>>
                        THEN <<FullFieldValue(line, label)>> ELSE <<>>)
               ELSE IF Strip(line) # <<>> /\ current_field # None /\ Indented(line)
               THEN FullFieldsLines(Tail(lines), article, current_field,
                                    Append(current_content, Strip(line)))
               ELSE FullFieldsLines(Tail(lines), article, current_field, current_content)

_extract_full_fields_format(record) ==
    FullFieldsLines(SplitLines(record, <<>>), EmptyArticle, None, <<>>)

\* re.match(r"^([A-Z]{2})\s*-?\s*(.*)$", line) matches
ErTagged(line) ==
    Len(line) >= 2 /\ line[1] \in Range(UpperLetters) /\ line[2] \in Range(UpperLetters)

\* group(2) of that match: what follows the two letters, the whitespace after them,
\* a dash if one comes next, and the whitespace after the dash
ErValue(line) ==
    LET rest == LStripBy(From(line, 3), SpaceChars)
    IN IF rest # <<>> /\ Head(rest) = "-" THEN LStripBy(Tail(rest), SpaceChars) ELSE rest

RECURSIVE ErLines(_, _, _, _)
ErLines(lines, article, current_field, current_content) ==
    \* if current_field and current_content: self._process_er_field(...)
    LET flushed ==
            IF current_field # None /\ current_content # <<>>
            THEN _process_er_field(article, current_field, Join(<<" ">>, current_content))
            ELSE article
    IN IF lines = <<>>
       THEN flushed
       ELSE LET line == Strip(Head(lines))
            IN IF line = <<>> \/ line = <<"E","R">>
               THEN ErLines(Tail(lines), article, current_field, current_content)
               ELSE IF ErTagged(line)
               THEN ErLines(Tail(lines),
                            flushed,
                            SubSeq(line, 1, 2), IfAny(ErValue(line)))
               ELSE IF current_field # None /\ Indented(line)
               THEN ErLines(Tail(lines), article, current_field,
                            Append(current_content, line))
               ELSE ErLines(Tail(lines), article, current_field, current_content)

_extract_er_terminated_format(record) ==
    ErLines(SplitLines(record, <<>>), EmptyArticle, None, <<>>)

\* re.match(r"^([A-Z]+)\s*-\s*(.*)$", line) matches: capital letters, whitespace, a dash
PubmedTagged(line) ==
    LET letters == LeadingRun(line, Range(UpperLetters))
        rest == LStripBy(From(line, letters + 1), SpaceChars)
    IN letters >= 1 /\ rest # <<>> /\ Head(rest) = "-"

\* group(1) of that match
PubmedTag(line) == SubSeq(line, 1, LeadingRun(line, Range(UpperLetters)))

\* group(2) of that match
PubmedValue(line) ==
    LET rest == LStripBy(From(line, Len(PubmedTag(line)) + 1), SpaceChars)
    IN LStripBy(Tail(rest), SpaceChars)

RECURSIVE PubmedLines(_, _, _, _)
PubmedLines(lines, article, current_field, current_content) ==
    \* if current_field and current_content: self._process_pubmed_field(...)
    LET flushed ==
            IF current_field # None /\ current_content # <<>>
            THEN _process_pubmed_field(article, current_field, Join(<<" ">>, current_content))
            ELSE article
    IN IF lines = <<>>
       THEN flushed
       ELSE LET line == Strip(Head(lines))
            IN IF line = <<>>
               THEN PubmedLines(Tail(lines), article, current_field, current_content)
               ELSE IF PubmedTagged(line)
               THEN PubmedLines(Tail(lines),
                                flushed,
                                PubmedTag(line), IfAny(PubmedValue(line)))
               ELSE IF current_field # None
               THEN PubmedLines(Tail(lines), article, current_field,
                                Append(current_content, line))
               ELSE PubmedLines(Tail(lines), article, current_field, current_content)

_extract_pubmed_format(record) ==
    PubmedLines(SplitLines(record, <<>>), EmptyArticle, None, <<>>)

_extract_txt_fields(record, format_type) ==
    IF format_type = "citation_export" THEN _extract_citation_export_format(record)
    ELSE IF format_type = "records_format" THEN _extract_records_format(record)
    ELSE IF format_type = "full_fields" THEN _extract_full_fields_format(record)
    ELSE IF format_type = "er_terminated" THEN _extract_er_terminated_format(record)
    ELSE _extract_pubmed_format(record)

\* a byte that belongs to no UTF-8 sequence (0xFF), written by name
InvalidByte == "xFF"

\* file_content.decode("utf-8", errors="ignore"): the invalid bytes are dropped
Decode(file_content) == SelectSeq(file_content, LAMBDA b : b # InvalidByte)

\* any(value != "Sem informação" for value in article.values())
AnyKnown(article) == \E field \in DOMAIN article : article[field] # SemInformacao

\* the body of the try block of TXTParser.parse
TxtArticles(file_content) ==
    LET text_content == Decode(file_content)
        format_type == _detect_format(text_content)
        records == SelectSeq(_split_records(text_content, format_type),
                             LAMBDA record : Strip(record) # <<>>)
        extracted == [k \in DOMAIN records |-> _extract_txt_fields(records[k], format_type)]
    IN SelectSeq(extracted, AnyKnown)

-----------------------------------------------------------------------------
(* parsers_pt.py: RISParser.  An entry of rispy.loads is a function from the keys it
   holds to their values; the value of "authors" and "first_authors" is a list *)

\* entry.get(key)
Get(entry, key) == IF key \in DOMAIN entry THEN entry[key] ELSE None

\* bool(value) of a str, a list or None
Truthy(value) == value # None /\ value # <<>>

\* a or b
Or(a, b) == IF Truthy(a) THEN a ELSE b

\* [str(author).strip() for author in listed if author]
StrippedAuthors(listed) ==
    LET named == SelectSeq(listed, Truthy)
    IN [k \in DOMAIN named |-> Strip(named[k])]

_extract_ris_fields(entry) ==
    LET title == Or(Get(entry, "title"), Get(entry, "primary_title"))
        authors ==
            IF "authors" \in DOMAIN entry /\ Truthy(entry["authors"])
            THEN StrippedAuthors(entry["authors"])
            ELSE IF "first_authors" \in DOMAIN entry /\ Truthy(entry["first_authors"])
            THEN StrippedAuthors(entry["first_authors"])
            ELSE <<>>
        year == Or(Get(entry, "year"), Get(entry, "publication_year"))
    IN [Title |->
            IF ("title" \in DOMAIN entry \/ "primary_title" \in DOMAIN entry)
               /\ Truthy(title)
            THEN Strip(title) ELSE SemInformacao,
        Authors |-> IF authors # <<>> THEN Join(<<",", " ">>, authors) ELSE SemInformacao,
        Year |->
            IF Truthy(year) /\ YearSearch(year) # None THEN YearSearch(year)
            ELSE SemInformacao,
        DOI |->
            IF Truthy(Get(entry, "doi")) THEN SetDoi(EmptyArticle, entry["doi"]).DOI
            ELSE SemInformacao,
        Abstract |->
            IF Truthy(Get(entry, "abstract"))
            THEN SetAbstract(EmptyArticle, entry["abstract"]).Abstract
            ELSE SemInformacao]

\* the end (position after) of the match of r"\nER\s*-" at p, 0 if there is none
RisSplitMatch(text, p) ==
    LET q == p + 3 + LeadingRun(From(text, p + 3), SpaceChars)
    IN IF StartsWith(From(text, p), <<"\n","E","R">>) /\ q <= Len(text) /\ text[q] = "-"
       THEN q + 1 ELSE 0

\* re.split(r"\nER\s*-", text): the pieces between the matches, left to right
RECURSIVE RisSplit(_, _, _)
RisSplit(text, start, p) ==
    IF p > Len(text) THEN <<SubSeq(text, start, Len(text))>>
    ELSE IF RisSplitMatch(text, p) > 0
         THEN <<SubSeq(text, start, p - 1)>>
              \o RisSplit(text, RisSplitMatch(text, p), RisSplitMatch(text, p))
         ELSE RisSplit(text, start, p + 1)

\* the position of the dash of r"^<tag>\s*-" under re.MULTILINE at p, 0 if it does
\* not match there
TagDash(record, p, tag) ==
    LET q == p + 2 + LeadingRun(From(record, p + 2), SpaceChars)
    IN IF /\ AtLineStart(record, p)
          /\ StartsWith(From(record, p), tag)
          /\ q <= Len(record) /\ record[q] = "-"
       THEN q ELSE 0

\* the lookahead (?=\n[A-Z]{2}\s*-|\Z) holds at q
NextTagOrEnd(record, q) ==
    \/ q = Len(record) + 1
    \/ /\ q + 2 <= Len(record)
       /\ record[q] = "\n"
       /\ record[q + 1] \in Range(UpperLetters)
       /\ record[q + 2] \in Range(UpperLetters)
       /\ LET r == q + 3 + LeadingRun(From(record, q + 3), SpaceChars)
          IN r <= Len(record) /\ record[r] = "-"

\* where group(1) of r"^<tag>\s*-\s*(.+?)..." starts when the dash is at dash: after
\* the whitespace that follows the dash, which gives back its last character when it
\* runs to the end of the record; 0 if nothing follows the dash
BlockStart(record, dash) ==
    LET g == dash + 1 + LeadingRun(From(record, dash + 1), SpaceChars)
    IN IF g <= Len(record) THEN g
       ELSE IF g - 1 > dash THEN g - 1
       ELSE 0

\* <<start, end>> of group(1) of the first match of
\* r"^<tag>\s*-\s*(.+?)(?=\n[A-Z]{2}\s*-|\Z)" under re.MULTILINE | re.DOTALL, None if
\* there is no match
BlockSearch(record, tag) ==
    LET found == {p \in DOMAIN record :
                     TagDash(record, p, tag) > 0
                     /\ BlockStart(record, TagDash(record, p, tag)) > 0}
    IN IF found = {} THEN None
       ELSE LET p == CHOOSE x \in found : \A y \in found : x <= y
                g == BlockStart(record, TagDash(record, p, tag))
                ends == {q \in (g + 1)..(Len(record) + 1) : NextTagOrEnd(record, q)}
            IN <<g, (CHOOSE q \in ends : \A r \in ends : q <= r) - 1>>

\* where group(1) of r"^<tag>\s*-\s*(.+?)$" starts when the dash is at dash: the last
\* character that the whitespace after the dash can stop before and that is not a
\* newline; 0 if there is none
LineStart(record, dash) ==
    LET g == dash + 1 + LeadingRun(From(record, dash + 1), SpaceChars)
        onLine == {h \in (dash + 1)..g : h <= Len(record) /\ record[h] # "\n"}
    IN IF onLine = {} THEN 0 ELSE CHOOSE h \in onLine : \A k \in onLine : k <= h

\* the end of that group: it runs to the end of its line
LineEnd(record, g) ==
    LET ends == {q \in (g + 1)..(Len(record) + 1) :
                    q = Len(record) + 1 \/ record[q] = "\n"}
    IN (CHOOSE q \in ends : \A r \in ends : q <= r) - 1

\* r"^<tag>\s*-\s*(.+?)$" under re.MULTILINE matches at p
LineMatchAt(record, p, tag) ==
    TagDash(record, p, tag) > 0 /\ LineStart(record, TagDash(record, p, tag)) > 0

\* group(1) of that match
LineGroup(record, p, tag) ==
    LET g == LineStart(record, TagDash(record, p, tag))
    IN SubSeq(record, g, LineEnd(record, g))

\* re.findall(r"^<tag>\s*-\s*(.+?)$", record, re.MULTILINE): the matches from p on,
\* each search resuming where the last match ended
RECURSIVE LineFindAll(_, _, _)
LineFindAll(record, p, tag) ==
    IF p > Len(record) THEN <<>>
    ELSE IF LineMatchAt(record, p, tag)
         THEN <<LineGroup(record, p, tag)>>
              \o LineFindAll(record,
                             LineEnd(record, LineStart(record, TagDash(record, p, tag))) + 1,
                             tag)
         ELSE LineFindAll(record, p + 1, tag)

\* group(1) of re.search(r"^<tag>\s*-\s*(\d{4})", record, re.MULTILINE), None if there
\* is no match
FourDigitsSearch(record, tag) ==
    LET digitsAt(p) ==
            LET g == TagDash(record, p, tag) + 1
                     + LeadingRun(From(record, TagDash(record, p, tag) + 1), SpaceChars)
            IN IF TagDash(record, p, tag) > 0
                  /\ LeadingRun(From(record, g), Digits) >= 4
               THEN g ELSE 0
        found == {p \in DOMAIN record : digitsAt(p) > 0}
    IN IF found = {} THEN None
       ELSE LET p == CHOOSE x \in found : \A y \in found : x <= y
            IN SubSeq(record, digitsAt(p), digitsAt(p) + 3)

\* s.replace("\n", " ")
NewlinesToSpaces(s) == [k \in DOMAIN s |-> IF s[k] = "\n" THEN " " ELSE s[k]]

\* the article _custom_ris_parse builds from one record
CustomArticle(record) ==
    LET title_match == BlockSearch(record, <<"T","I">>)
        title == Join(<<" ">>, Split(NewlinesToSpaces(
                     Strip(SubSeq(record, title_match[1], title_match[2])))))
        author_matches == LineFindAll(record, 1, <<"A","U">>)
        authors == SelectSeq([k \in DOMAIN author_matches |-> Strip(author_matches[k])],
                             LAMBDA author : author # <<>>)
        year_match == IF FourDigitsSearch(record, <<"P","Y">>) # None
                      THEN FourDigitsSearch(record, <<"P","Y">>)
                      ELSE FourDigitsSearch(record, <<"D","A">>)
        doi_match == LineFindAll(record, 1, <<"D","O">>)
        abstract_match == BlockSearch(record, <<"A","B">>)
    IN [Title |-> IF title_match # None /\ title # <<>> THEN title ELSE SemInformacao,
        Authors |-> IF authors # <<>> THEN Join(<<",", " ">>, authors) ELSE SemInformacao,
        Year |-> IF year_match # None THEN year_match ELSE SemInformacao,
        DOI |->
            IF doi_match # <<>> THEN SetDoi(EmptyArticle, Strip(doi_match[1])).DOI
            ELSE SemInformacao,
        Abstract |->
            IF abstract_match # None
            THEN SetAbstract(EmptyArticle, NewlinesToSpaces(
                     Strip(SubSeq(record, abstract_match[1], abstract_match[2])))).Abstract
            ELSE SemInformacao]

_custom_ris_parse(file_content) ==
    LET text_content == Decode(file_content)
        records == SelectSeq(RisSplit(text_content, 1, 1),
                             LAMBDA record : Strip(record) # <<>>)
    IN [k \in DOMAIN records |-> CustomArticle(records[k])]

-----------------------------------------------------------------------------
(* duplicate_remover.py: DuplicateRemover *)

\* similarity >= threshold with threshold = 0.9 = ThresholdTenths / 10
ThresholdTenths == 9

_normalize_title(title) ==
    IF title = <<>> \/ title = SemInformacao THEN <<>>
    ELSE Strip(CollapseSpace(Filter(Lower(title), WordChars \cup SpaceChars), FALSE))

\* a slip: the DOI is not lower-cased for the comparison
NormalizeDoiKeepCase(doi) ==
    IF doi = <<>> \/ doi = SemInformacao THEN <<>>
    ELSE Remove(Remove(Strip(Remove(Remove(doi, PrefixDoiLower), PrefixDoiUpper)),
                       PrefixHttps),
                PrefixHttpDx)

_normalize_doi(doi) ==
    IF doi = <<>> \/ doi = SemInformacao THEN <<>>
    ELSE Lower(Remove(Remove(Strip(Remove(Remove(doi, PrefixDoiLower), PrefixDoiUpper)),
                             PrefixHttps),
                      PrefixHttpDx))

\* a slip: the shared words are measured against the first title alone
TitlesAreSimilarOneSided(title1, title2) ==
    IF title1 = <<>> \/ title2 = <<>> THEN FALSE
    ELSE LET words1 == Range(Split(title1))
             words2 == Range(Split(title2))
         IN IF words1 = {} \/ words2 = {} THEN FALSE
            ELSE 10 * Cardinality(words1 \cap words2) >= ThresholdTenths * Cardinality(words1)

_titles_are_similar(title1, title2) ==
    IF title1 = <<>> \/ title2 = <<>> THEN FALSE
    ELSE LET words1 == Range(Split(title1))
             words2 == Range(Split(title2))
             intersection == Cardinality(words1 \cap words2)
             union == Cardinality(words1 \cup words2)
         IN IF words1 = {} \/ words2 = {} THEN FALSE
            ELSE 10 * intersection >= ThresholdTenths * union

\* a slip: the two length bonuses are tested one after the other, so a long abstract
\* earns both
QualityScoreBothBonuses(article) ==
    (IF article.Title # SemInformacao THEN 10 ELSE 0)
    + (IF article.Authors # SemInformacao THEN 8 ELSE 0)
    + (IF article.Year # SemInformacao THEN 5 ELSE 0)
    + (IF article.DOI # SemInformacao THEN 15 ELSE 0)
    + (IF article.Abstract # SemInformacao THEN 20 ELSE 0)
    + (IF article.Abstract # <<>> /\ article.Abstract # SemInformacao
       THEN (IF Len(article.Abstract) > 500 THEN 5 ELSE 0)
            + (IF Len(article.Abstract) > 200 THEN 3 ELSE 0)
       ELSE 0)

_calculate_article_quality_score(article) ==
    (IF article.Title # SemInformacao THEN 10 ELSE 0)
    + (IF article.Authors # SemInformacao THEN 8 ELSE 0)
    + (IF article.Year # SemInformacao THEN 5 ELSE 0)
    + (IF article.DOI # SemInformacao THEN 15 ELSE 0)
    + (IF article.Abstract # SemInformacao THEN 20 ELSE 0)
    + (IF article.Abstract # <<>> /\ article.Abstract # SemInformacao
       THEN (IF Len(article.Abstract) > 500 THEN 5
             ELSE IF Len(article.Abstract) > 200 THEN 3 ELSE 0)
       ELSE 0)

\* the loop of _select_best_article from position k of duplicate_indices on
RECURSIVE BestFrom(_, _, _, _, _)
BestFrom(frame, duplicate_indices, k, best_idx, best_score) ==
    IF k > Len(duplicate_indices) THEN best_idx
    ELSE LET i == duplicate_indices[k]
             score == _calculate_article_quality_score(frame[i])
         IN IF score > best_score
            THEN BestFrom(frame, duplicate_indices, k + 1, i, score)
            ELSE BestFrom(frame, duplicate_indices, k + 1, best_idx, best_score)

_select_best_article(frame, duplicate_indices) ==
    BestFrom(frame, duplicate_indices, 1, duplicate_indices[1], 0)

\* a slip: rows already processed are candidates as well
FindTitleMatchesAll(frame, title, processed) ==
    IF title = SemInformacao THEN {}
    ELSE {i \in DOMAIN frame :
            /\ frame[i].Title # SemInformacao
            /\ _titles_are_similar(_normalize_title(title), _normalize_title(frame[i].Title))}

_find_title_matches(frame, title, processed) ==
    IF title = SemInformacao THEN {}
    ELSE {i \in DOMAIN frame :
            /\ i \notin processed
            /\ frame[i].Title # SemInformacao
            /\ _titles_are_similar(_normalize_title(title), _normalize_title(frame[i].Title))}

\* a slip: the DOIs are compared as stored
FindDoiMatchesRaw(frame, doi, processed) ==
    IF doi = SemInformacao THEN {}
    ELSE {i \in DOMAIN frame :
            i \notin processed /\ frame[i].DOI # SemInformacao /\ doi = frame[i].DOI}

_find_doi_matches(frame, doi, processed) ==
    IF doi = SemInformacao THEN {}
    ELSE {i \in DOMAIN frame :
            /\ i \notin processed
            /\ frame[i].DOI # SemInformacao
            /\ _normalize_doi(doi) = _normalize_doi(frame[i].DOI)}

\* a slip: the DOIs are looked at only when the titles gave no reason
GetDuplicateReasonElif(frame, removed_idx, kept_idx) ==
    LET removed_article == frame[removed_idx]
        kept_article == frame[kept_idx]
        byTitle ==
            /\ removed_article.Title # SemInformacao
            /\ kept_article.Title # SemInformacao
            /\ _titles_are_similar(_normalize_title(removed_article.Title),
                                   _normalize_title(kept_article.Title))
        byDoi ==
            /\ ~byTitle
            /\ removed_article.DOI # SemInformacao
            /\ kept_article.DOI # SemInformacao
            /\ _normalize_doi(removed_article.DOI) = _normalize_doi(kept_article.DOI)
        reasons ==
            (IF byTitle THEN <<"título similar">> ELSE <<>>)
            \o (IF byDoi THEN <<"mesmo DOI">> ELSE <<>>)
    IN [reasons |-> IF reasons = <<>> THEN <<"critérios de duplicata">> ELSE reasons,
        removed_score |-> _calculate_article_quality_score(removed_article),
        kept_score |-> _calculate_article_quality_score(kept_article)]

\* the arguments of the f-string of _get_duplicate_reason: the reasons joined by
\* ", " and the two scores
_get_duplicate_reason(frame, removed_idx, kept_idx) ==
    LET removed_article == frame[removed_idx]
        kept_article == frame[kept_idx]
        byTitle ==
            /\ removed_article.Title # SemInformacao
            /\ kept_article.Title # SemInformacao
            /\ _titles_are_similar(_normalize_title(removed_article.Title),
                                   _normalize_title(kept_article.Title))
        byDoi ==
            /\ removed_article.DOI # SemInformacao
            /\ kept_article.DOI # SemInformacao
            /\ _normalize_doi(removed_article.DOI) = _normalize_doi(kept_article.DOI)
        reasons ==
            (IF byTitle THEN <<"título similar">> ELSE <<>>)
            \o (IF byDoi THEN <<"mesmo DOI">> ELSE <<>>)
    IN [reasons |-> IF reasons = <<>> THEN <<"critérios de duplicata">> ELSE reasons,
        removed_score |-> _calculate_article_quality_score(removed_article),
        kept_score |-> _calculate_article_quality_score(kept_article)]

\* one entry of duplicates_info
DuplicateInfo(frame, dup_idx, best_article_idx) ==
    [original_index |-> dup_idx,
     title |-> frame[dup_idx].Title,
     authors |-> frame[dup_idx].Authors,
     year |-> frame[dup_idx].Year,
     doi |-> frame[dup_idx].DOI,
     source_file |-> frame[dup_idx].source_file,
     reason |-> _get_duplicate_reason(frame, dup_idx, best_article_idx),
     kept_article_index |-> best_article_idx]

\* all_matches of the row at position i
AllMatches(frame, i, processed) ==
    SetToList(Ascending(_find_title_matches(frame, frame[i].Title, processed))
              \o Ascending(_find_doi_matches(frame, frame[i].DOI, processed))
              \o <<i>>)

\* a slip: rows are dropped by their position in the frame already shortened
RECURSIVE DropShifted(_, _, _)
DropShifted(frame, indices_to_remove, k) ==
    IF k > Len(frame) THEN frame
    ELSE IF k \in indices_to_remove
         THEN DropShifted(SubSeq(frame, 1, k - 1) \o SubSeq(frame, k + 1, Len(frame)),
                          indices_to_remove, k + 1)
         ELSE DropShifted(frame, indices_to_remove, k + 1)

\* df.drop(indices_to_remove).reset_index(drop=True)
RECURSIVE Drop(_, _, _)
Drop(frame, indices_to_remove, k) ==
    IF k > Len(frame) THEN <<>>
    ELSE (IF k \in indices_to_remove THEN <<>> ELSE <<frame[k]>>)
         \o Drop(frame, indices_to_remove, k + 1)

-----------------------------------------------------------------------------
(* The frames remove_duplicates is run on *)

\* a title of n one-letter words: "a b c ..."
TitleOfWords(n) == Join(<<" ">>, [i \in 1..n |-> <<LowerLetters[i]>>])

Article(title, authors, year, doi, abstract, source) ==
    [Title |-> title, Authors |-> authors, Year |-> year, DOI |-> doi,
     Abstract |-> abstract, source_file |-> source]

RecordPool ==
    LET Doi1 == <<"1","0",".","1","/","x">>
        Doi1Upper == <<"1","0",".","1","/","X">>
        Doi1Prefixed == <<"d","o","i",":","1","0",".","1","/","x">>
        Doi2 == <<"1","0",".","2","/","y">>
        Doi3 == <<"1","0",".","3","/","z">>
        SomeAuthors == <<"S","m","i","t","h"," ","J">>
        SomeYear == <<"2","0","1","9">>
        ShortAbstract == [i \in 1..11 |-> "a"]
    IN { Article(TitleOfWords(9), SomeAuthors, SemInformacao, Doi1, SemInformacao, "f1"),
         Article(TitleOfWords(10), SomeAuthors, SomeYear, Doi2, ShortAbstract, "f1"),
         Article(TitleOfWords(11), SemInformacao, SemInformacao, Doi3, SemInformacao, "f2"),
         Article(<<"A","b"," ","c","d",".">>, SemInformacao, SemInformacao, Doi1Upper,
                 SemInformacao, "f2"),
         Article(<<"a","b"," ","c","d">>, SomeAuthors, SomeYear, SemInformacao,
                 ShortAbstract, "f1"),
         Article(SemInformacao, SomeAuthors, SomeYear, Doi1, ShortAbstract, "f2"),
         Article(<<"a","b"," ","c","d">>, SemInformacao, SemInformacao, Doi1Prefixed,
                 SemInformacao, "f1"),
         Article(<<"?","!">>, SemInformacao, SomeYear, Doi2, SemInformacao, "f1"),
         Article(<<"!">>, SemInformacao, SemInformacao, Doi2, SemInformacao, "f2"),
         Article(SemInformacao, SemInformacao, SomeYear, SemInformacao, SemInformacao, "f1") }

-----------------------------------------------------------------------------
(* DuplicateRemover.remove_duplicates, one action per turn of its loop *)

\* no pure function is under check
IdleFn == input = <<>> /\ output = <<>>

\* remove_duplicates is not running
IdleDedup ==
    /\ df = <<>>
    /\ idx = 1
    /\ processed_ids = {}
    /\ duplicates_info = <<>>
    /\ groups = <<>>
    /\ df_cleaned = <<>>
    /\ run = 1

\* fetch_abstracts_batch is not running
IdleFetch ==
    /\ fetched_count = 0
    /\ calls = <<>>
    /\ attempt = 0
    /\ requests = 0
    /\ lookup_abstract = <<>>

\* longer frames: copies of one complete record among records without title and DOI,
\* which the pass skips
LongFrames ==
    LET Known == Article(<<"a","b"," ","c","d">>, <<"S","m","i","t","h"," ","J">>,
                         <<"2","0","1","9">>, <<"1","0",".","1","/","x">>,
                         SemInformacao, "f1")
        Unknown == Article(SemInformacao, SemInformacao, <<"2","0","1","9">>,
                           SemInformacao, SemInformacao, "f1")
    IN UNION {[1..n -> {Known, Unknown}] : n \in (MaxRecords + 1)..MaxRows}

\* frames of two rows with a title each, whose DOIs are one of two DOIs, in lower or
\* upper case, bare or behind one of the four prefixes
DoiFrames ==
    [1..2 ->
        {Article(title, SemInformacao, SemInformacao, prefix \o body, SemInformacao, "f1") :
            title \in {<<"a","b"," ","c","d">>, <<"q">>},
            prefix \in {<<>>, PrefixDoiLower, PrefixDoiUpper, PrefixHttps, PrefixHttpDx},
            body \in {<<"1","0",".","1","/","x">>, <<"1","0",".","1","/","X">>,
                      <<"1","0",".","2","/","y">>}}]

Init ==
    /\ df \in UNION {[1..n -> RecordPool] : n \in 0..MaxRecords} \cup LongFrames \cup DoiFrames
    /\ idx = 1
    /\ processed_ids = {}
    /\ duplicates_info = <<>>
    /\ groups = <<>>
    /\ df_cleaned = <<>>
    /\ pc = "start"
    /\ run = 1
    /\ IdleFn
    /\ IdleFetch

\* if df.empty: return df, []
ReturnEmpty ==
    /\ pc = "start"
    /\ df = <<>>
    /\ df_cleaned' = df
    /\ pc' = "done"
    /\ UNCHANGED <<df, idx, processed_ids, duplicates_info, groups, run>>
    /\ UNCHANGED <<fnVars, fetchVars>>

\* duplicates_info = []; processed_ids = set(); the loop starts
EnterLoop ==
    /\ pc = "start"
    /\ df # <<>>
    /\ pc' = "loop"
    /\ UNCHANGED <<df, idx, processed_ids, duplicates_info, groups, df_cleaned, run>>
    /\ UNCHANGED <<fnVars, fetchVars>>

\* if idx in processed_ids: continue
SkipProcessed ==
    /\ pc = "loop"
    /\ idx <= Len(df)
    /\ idx \in processed_ids
    /\ idx' = idx + 1
    /\ UNCHANGED <<df, processed_ids, duplicates_info, groups, df_cleaned, pc, run>>
    /\ UNCHANGED <<fnVars, fetchVars>>

\* a row whose Title or DOI is the sentinel is marked processed and passed over
SkipSentinel ==
    /\ pc = "loop"
    /\ idx <= Len(df)
    /\ idx \notin processed_ids
    /\ df[idx].Title = SemInformacao \/ df[idx].DOI = SemInformacao
    /\ processed_ids' = processed_ids \cup {idx}
    /\ idx' = idx + 1
    /\ UNCHANGED <<df, duplicates_info, groups, df_cleaned, pc, run>>
    /\ UNCHANGED <<fnVars, fetchVars>>

\* a slip: the kept row is given an audit entry like the others
GroupEntriesAll(frame, all_matches, best_article_idx) ==
    [k \in DOMAIN all_matches |-> DuplicateInfo(frame, all_matches[k], best_article_idx)]

\* the audit entries of one group, in the order of duplicates_to_remove
GroupEntries(frame, all_matches, best_article_idx) ==
    LET duplicates_to_remove ==
            SelectSeq(all_matches, LAMBDA i : i # best_article_idx)
    IN [k \in DOMAIN duplicates_to_remove |->
            DuplicateInfo(frame, duplicates_to_remove[k], best_article_idx)]

\* len(all_matches) > 1: the best row is kept, the others get an audit entry
ResolveGroup ==
    /\ pc = "loop"
    /\ idx <= Len(df)
    /\ idx \notin processed_ids
    /\ df[idx].Title # SemInformacao /\ df[idx].DOI # SemInformacao
    /\ LET all_matches == AllMatches(df, idx, processed_ids)
           best_article_idx == _select_best_article(df, all_matches)
       IN /\ Len(all_matches) > 1
          /\ duplicates_info' =
                duplicates_info \o GroupEntries(df, all_matches, best_article_idx)
          /\ processed_ids' = processed_ids \cup Range(all_matches)
          /\ groups' = Append(groups, [pivot |-> idx,
                                       members |-> Range(all_matches),
                                       best |-> best_article_idx])
    /\ idx' = idx + 1
    /\ UNCHANGED <<df, df_cleaned, pc, run>>
    /\ UNCHANGED <<fnVars, fetchVars>>

\* len(all_matches) = 1: the row has no duplicate among the unprocessed rows
ResolveSingle ==
    /\ pc = "loop"
    /\ idx <= Len(df)
    /\ idx \notin processed_ids
    /\ df[idx].Title # SemInformacao /\ df[idx].DOI # SemInformacao
    /\ Len(AllMatches(df, idx, processed_ids)) <= 1
    /\ processed_ids' = processed_ids \cup {idx}
    /\ idx' = idx + 1
    /\ UNCHANGED <<df, duplicates_info, groups, df_cleaned, pc, run>>
    /\ UNCHANGED <<fnVars, fetchVars>>

\* indices_to_remove of the finished loop
IndicesToRemove(info) == {info[k].original_index : k \in DOMAIN info}

\* the loop is over: the rows with an audit entry are dropped
Finish ==
    /\ pc = "loop"
    /\ idx > Len(df)
    /\ df_cleaned' = Drop(df, IndicesToRemove(duplicates_info), 1)
    /\ pc' = "done"
    /\ UNCHANGED <<df, idx, processed_ids, duplicates_info, groups, run>>
    /\ UNCHANGED <<fnVars, fetchVars>>

\* the caller runs remove_duplicates again, on the frame it got back
RunAgain ==
    /\ pc = "done"
    /\ run = 1
    /\ df' = df_cleaned
    /\ idx' = 1
    /\ processed_ids' = {}
    /\ duplicates_info' = <<>>
    /\ groups' = <<>>
    /\ df_cleaned' = <<>>
    /\ pc' = "start"
    /\ run' = 2
    /\ UNCHANGED <<fnVars, fetchVars>>

Next ==
    \/ ReturnEmpty
    \/ EnterLoop
    \/ SkipProcessed
    \/ SkipSentinel
    \/ ResolveGroup
    \/ ResolveSingle
    \/ Finish
    \/ RunAgain

Spec == Init /\ [][Next]_vars

-----------------------------------------------------------------------------
(* Properties of remove_duplicates *)

Known(article) == article.Title # SemInformacao /\ article.DOI # SemInformacao

Removed == {duplicates_info[k].original_index : k \in DOMAIN duplicates_info}

Kept == {duplicates_info[k].kept_article_index : k \in DOMAIN duplicates_info}

EntriesOf(i) == {k \in DOMAIN duplicates_info : duplicates_info[k].original_index = i}

\* C1: running remove_duplicates on the frame a run returned removes nothing: the
\* second run returns the same rows and an empty audit list.
C1_Idempotent ==
    (run = 2 /\ pc = "done") => (df_cleaned = df /\ duplicates_info = <<>>)

\* C2: a row whose Title or DOI is the sentinel is in no duplicate group: it has no
\* audit entry, it is not the kept row of any audit entry, and it is returned.
C2_UnknownNeverGrouped ==
    \A i \in DOMAIN df :
        ~Known(df[i]) =>
            /\ i \notin Removed
            /\ i \notin Kept
            /\ \A g \in DOMAIN groups : i \notin groups[g].members
            /\ pc = "done" => \E j \in DOMAIN df_cleaned : df_cleaned[j] = df[i]

\* C3: every group has exactly one survivor, each other member has exactly one audit
\* entry, which names that survivor; no row has two audit entries; and at the end
\* survivors plus audit entries are the input rows.
C3_OneSurvivorPerGroup ==
    /\ \A g \in DOMAIN groups :
          /\ groups[g].best \in groups[g].members
          /\ groups[g].best \notin Removed
          /\ \A m \in groups[g].members \ {groups[g].best} :
                /\ Cardinality(EntriesOf(m)) = 1
                /\ \A k \in EntriesOf(m) :
                      duplicates_info[k].kept_article_index = groups[g].best
    /\ \A i \in DOMAIN df : Cardinality(EntriesOf(i)) <= 1
    /\ \A k \in DOMAIN duplicates_info :
          \E g \in DOMAIN groups : duplicates_info[k].original_index \in groups[g].members
    /\ pc = "done" => Len(df_cleaned) + Len(duplicates_info) = Len(df)

\* a finished run with a group of three rows
C3_Witness ==
    /\ pc = "done"
    /\ \E g \in DOMAIN groups : Cardinality(groups[g].members) = 3
    /\ Len(duplicates_info) = 2

\* the position in df of the j-th row that has no audit entry
NthSurvivor(j) ==
    CHOOSE i \in DOMAIN df \ Removed :
        Cardinality({x \in DOMAIN df \ Removed : x < i}) = j - 1

\* C4: the returned rows are exactly the input rows without an audit entry, in the
\* input's order, each with its fields unchanged.
C4_SurvivorsInOrder ==
    pc = "done" =>
        /\ Len(df_cleaned) = Cardinality(DOMAIN df \ Removed)
        /\ \A j \in DOMAIN df_cleaned : df_cleaned[j] = df[NthSurvivor(j)]

\* a finished run that dropped a row standing before two different survivors
C4_Witness ==
    /\ pc = "done"
    /\ 1 \in Removed
    /\ Len(df_cleaned) = 2
    /\ df_cleaned[1] # df_cleaned[2]

\* the characters neither \w nor \s of a title, which normalization strips
Unpunctuated(title) == Filter(Lower(title), WordChars \cup SpaceChars)

\* two titles that differ only in punctuation or letter case
DifferOnlyInPunctuationOrCase(a, b) == a # b /\ Unpunctuated(a) = Unpunctuated(b)

\* a frame of two rows with known Title and DOI and equal normalized DOIs
TwoSameDoi ==
    /\ Len(df) = 2
    /\ Known(df[1]) /\ Known(df[2])
    /\ _normalize_doi(df[1].DOI) = _normalize_doi(df[2].DOI)

\* the audit list is one entry whose reason has the tag
OneEntryWith(tag) ==
    /\ Len(duplicates_info) = 1
    /\ tag \in Range(duplicates_info[1].reason.reasons)

\* C5 as stated: two rows with known Title and DOI and equal normalized DOIs leave
\* one survivor and one audit entry with "mesmo DOI", and with "título similar"
\* too when the titles differ only in punctuation or case.
C5_SameDoiGrouped ==
    (pc = "done" /\ TwoSameDoi) =>
        /\ Len(df_cleaned) = 1
        /\ OneEntryWith("mesmo DOI")
        /\ DifferOnlyInPunctuationOrCase(df[1].Title, df[2].Title)
              => OneEntryWith("título similar")

\* C5 amended: as C5, with "título similar" required only when the titles, which
\* differ only in punctuation or case, have at least one word character left after
\* normalization.
C5_SameDoiGroupedWordy ==
    (pc = "done" /\ TwoSameDoi) =>
        /\ Len(df_cleaned) = 1
        /\ OneEntryWith("mesmo DOI")
        /\ ( /\ DifferOnlyInPunctuationOrCase(df[1].Title, df[2].Title)
             /\ _normalize_title(df[1].Title) # <<>> )
              => OneEntryWith("título similar")

\* two rows with the same DOI in different case and titles differing in case and
\* punctuation, deduplicated
C5_Witness ==
    /\ pc = "done"
    /\ TwoSameDoi
    /\ df[1].DOI # df[2].DOI
    /\ df[1].Title # df[2].Title
    /\ DifferOnlyInPunctuationOrCase(df[1].Title, df[2].Title)
    /\ _normalize_title(df[1].Title) # <<>>
    /\ OneEntryWith("título similar")

-----------------------------------------------------------------------------
(* The DOI cleaner applied to a raw value, and again to what it returned *)

MaxTokens == 4

\* the pieces raw DOI values are made of
DoiTokens ==
    { <<"1","0",".","1","/">>, <<"1","0",".">>, <<"x">>, <<" ">>, <<".">>, <<";">>,
      PrefixDoiLower, PrefixDoiUpper, PrefixHttps }

InitDoi ==
    /\ input \in UNION {{Join(<<>>, f) : f \in [1..n -> DoiTokens]} : n \in 1..MaxTokens}
    /\ output = <<>>
    /\ pc = "raw"
    /\ IdleDedup
    /\ IdleFetch

\* an extractor cleans the raw value and stores the result
CleanDoi ==
    /\ pc = "raw"
    /\ output' = <<DoiField(input)>>
    /\ pc' = "cleaned"
    /\ UNCHANGED <<input, dedupVars, fetchVars>>

\* the stored value is cleaned again
CleanDoiAgain ==
    /\ pc = "cleaned"
    /\ output' = Append(output, DoiField(output[1]))
    /\ pc' = "recleaned"
    /\ UNCHANGED <<input, dedupVars, fetchVars>>

NextDoi == CleanDoi \/ CleanDoiAgain

SpecDoi == InitDoi /\ [][NextDoi]_vars

\* C8: the DOI cleaner is a projection: cleaning its own result returns that result,
\* and unknown stays unknown.
C8_DoiProjection ==
    pc = "recleaned" => output[2] = output[1]

\* a DOI in the form the claim describes
WellFormedDoi(doi) ==
    /\ MatchesDoiPattern(doi)
    /\ Strip(doi) = doi
    /\ doi[Len(doi)] \notin {".", ",", ";"}
    /\ \A prefix \in {PrefixDoiLower, PrefixDoiUpper, PrefixHttps, PrefixHttpDx} :
          ~StartsWith(doi, prefix)

\* C9: the DOI cleaner returns unknown, or a string 10.<digits>/<suffix> without a
\* known prefix, surrounding whitespace or trailing ".", "," or ";".
C9_DoiWellFormedOrUnknown ==
    pc = "cleaned" => (output[1] = SemInformacao \/ WellFormedDoi(output[1]))

-----------------------------------------------------------------------------
(* Title similarity of two titles, asked both ways round *)

MaxWords == 11

\* titles of 1..MaxWords words, and titles with capitals, punctuation, whitespace
\* runs, no word character at all, the empty string and the sentinel
TitlePool ==
    {TitleOfWords(n) : n \in 1..MaxWords}
    \cup { <<"A","b"," ","c","d",".">>, <<"a","b"," ","c","d">>, <<"a","b","-","c","d">>,
           <<" ","b"," "," ","a","\t","c","\n">>, <<"C",","," ","a",";"," ","B","!">>,
           <<"?","!">>, <<"_">>, <<>>, SemInformacao }

InitSim ==
    /\ input \in TitlePool \X TitlePool
    /\ output = <<>>
    /\ pc = "titles"
    /\ IdleDedup
    /\ IdleFetch

\* the two titles are normalized and compared, in both orders
CompareTitles ==
    /\ pc = "titles"
    /\ LET a == _normalize_title(input[1])
           b == _normalize_title(input[2])
       IN output' = [ab |-> _titles_are_similar(a, b),
                     ba |-> _titles_are_similar(b, a),
                     score_ab |-> calculate_similarity_score(input[1], input[2]),
                     score_ba |-> calculate_similarity_score(input[2], input[1])]
    /\ pc' = "compared"
    /\ UNCHANGED <<input, dedupVars, fetchVars>>

NextSim == CompareTitles

SpecSim == InitSim /\ [][NextSim]_vars

\* C10: title similarity is symmetric: the normalized titles a and b are similar
\* exactly when b and a are, and the similarity score is the same both ways.
C10_SimilaritySymmetric ==
    pc = "compared" => (output.ab = output.ba /\ output.score_ab = output.score_ba)

\* two different titles of different numbers of words that are similar
C10_Witness ==
    /\ pc = "compared"
    /\ output.ab
    /\ Len(Split(_normalize_title(input[1]))) < Len(Split(_normalize_title(input[2])))

-----------------------------------------------------------------------------
(* RISParser.parse and TXTParser.parse on the bytes of an uploaded file *)

MaxLines == 3

MaxEntries == 1

\* the lines files are made of: markers and fields of the five TXT dialects and of
\* RIS, a value with an invalid byte in it, an indented line and an empty one
LinePool ==
    { <<"R","e","c","o","r","d"," ","#","1"," ","o","f"," ","1">>,
      <<"D","O","I",":"," ","1","0",".","1","/","x"," ",".">>,
      <<"R","E","C","O","R","D"," ","1">>,
      <<"T","I","T","L","E">>,
      <<" "," ","T"," ","x">>,
      <<"E","R">>,
      <<>>,
      <<"T","I"," "," ","-"," ","T",InvalidByte," ","x">>,
      <<"D","O"," "," ","-"," ","1","0",".","1","/","x"," ",".">>,
      <<"P","M","I","D","-"," ","1">>,
      <<"T","i","t","l","e",":"," ","T">>,
      <<"E","R"," "," ","-"," ">> }

\* what rispy.loads may hand back for one reference
EntryPool ==
    { <<>>,
      ("title" :> <<"T"," ","x">>) @@ ("authors" :> << <<"A"," ","B">> >>)
         @@ ("year" :> <<"2","0","1","9">>)
         @@ ("doi" :> <<"1","0",".","1","/","x"," ",".">>) }

\* what rispy.loads may raise: its own ParseError and errors of the code under it
RispyErrors == {"ParseError", "ValueError"}

\* no error is pending
NoError == "None"

\* an except clause that catches ValueError alone
CatchesValueError(exc) == exc = "ValueError"

\* except Exception as e: every error rispy.loads can raise is an Exception
Catches(exc) == exc \in RispyErrors

InitParse ==
    /\ input \in {[parser |-> parser, file_content |-> Join(<<"\n">>, lines)] :
                    parser \in {"ris", "txt"},
                    lines \in UNION {[1..n -> LinePool] : n \in 0..MaxLines}}
    /\ output = [ris_entries |-> <<>>, exc |-> NoError, articles |-> <<>>]
    /\ pc = "call"
    /\ IdleDedup
    /\ IdleFetch

\* TXTParser.parse: nothing in its try block raises on decoded text
TxtParse ==
    /\ pc = "call"
    /\ input.parser = "txt"
    /\ output' = [output EXCEPT !.articles = TxtArticles(input.file_content)]
    /\ pc' = "returned"
    /\ UNCHANGED <<input, dedupVars, fetchVars>>

\* RISParser.parse: rispy.loads(text_content) returns its entries
RisLoadsReturns ==
    /\ pc = "call"
    /\ input.parser = "ris"
    /\ \E ris_entries \in UNION {[1..n -> EntryPool] : n \in 0..MaxEntries} :
          output' = [output EXCEPT !.ris_entries = ris_entries]
    /\ pc' = "entries"
    /\ UNCHANGED <<input, dedupVars, fetchVars>>

\* RISParser.parse: rispy.loads(text_content) raises
RisLoadsRaises ==
    /\ pc = "call"
    /\ input.parser = "ris"
    /\ \E exc \in RispyErrors : output' = [output EXCEPT !.exc = exc]
    /\ pc' = "unwinding"
    /\ UNCHANGED <<input, dedupVars, fetchVars>>

\* one turn of: for entry in ris_entries: articles.append(self._extract_ris_fields(entry))
RisExtractEntry ==
    /\ pc = "entries"
    /\ Len(output.articles) < Len(output.ris_entries)
    /\ output' = [output EXCEPT !.articles =
                     Append(@, _extract_ris_fields(
                                   output.ris_entries[Len(output.articles) + 1]))]
    /\ UNCHANGED <<input, pc, dedupVars, fetchVars>>

\* the loop is over: return articles
RisReturn ==
    /\ pc = "entries"
    /\ Len(output.articles) = Len(output.ris_entries)
    /\ pc' = "returned"
    /\ UNCHANGED <<input, output, dedupVars, fetchVars>>

\* the except clause of RISParser.parse: a caught error gives way to the custom
\* parser, an error the clause does not catch leaves parse
RisExcept ==
    /\ pc = "unwinding"
    /\ IF Catches(output.exc)
       THEN /\ output' = [output EXCEPT !.articles = _custom_ris_parse(input.file_content)]
            /\ pc' = "returned"
       ELSE /\ pc' = "raised"
            /\ UNCHANGED output
    /\ UNCHANGED <<input, dedupVars, fetchVars>>

NextParse ==
    \/ TxtParse
    \/ RisLoadsReturns
    \/ RisLoadsRaises
    \/ RisExtractEntry
    \/ RisReturn
    \/ RisExcept

SpecParse == InitParse /\ [][NextParse]_vars

\* a list of records of the five fields
IsArticleList(articles) ==
    \A k \in DOMAIN articles :
        DOMAIN articles[k] = {"Title", "Authors", "Year", "DOI", "Abstract"}

\* C6: neither parse raises, whatever the bytes: each returns a list of records, and
\* when the schema-based RIS parse fails the list is the custom fallback parser's.
C6_ParseNeverRaises ==
    /\ pc # "raised"
    /\ pc = "returned" => IsArticleList(output.articles)
    /\ (pc = "returned" /\ output.exc # NoError)
          => output.articles = _custom_ris_parse(input.file_content)

\* rispy.loads raised on a file with an invalid byte in it, and parse returned the
\* record the fallback parser found
C6_Witness ==
    /\ pc = "returned"
    /\ input.parser = "ris"
    /\ output.exc # NoError
    /\ InvalidByte \in Range(input.file_content)
    /\ output.articles # <<>>
    /\ output.articles[1].Title = <<"T"," ","x">>

\* a field value is the sentinel or non-empty text without whitespace around it
TrimmedOrUnknown(value) ==
    value = SemInformacao \/ (value # <<>> /\ Strip(value) = value)

\* C7: in every record an extractor produces, each of the five fields is the sentinel
\* or a non-empty string without leading or trailing whitespace.
C7_FieldsTrimmedOrUnknown ==
    pc = "returned" =>
        \A k \in DOMAIN output.articles :
            \A field \in DOMAIN output.articles[k] :
                TrimmedOrUnknown(output.articles[k][field])

-----------------------------------------------------------------------------
(* The extractors, the detector, the segmenter and the field cleaners of TXTParser
   and RISParser, each applied to an input of its own *)

MaxFields == 3

\* a tagged line as a dialect writes it: "AU: Smith J" in a citation-export block,
\* "AU  - Smith J" under a two-letter or a PubMed tag
TagLine(dialect, tag, value) ==
    IF dialect = "citation_export" THEN tag \o <<":", " ">> \o value
    ELSE tag \o <<" ", " ", "-", " ">> \o value

\* the record span made of the given fields, one line each
SpanOf(dialect, fields) ==
    Join(<<"\n">>, [k \in DOMAIN fields |->
                       TagLine(dialect, fields[k].tag, fields[k].value)])

\* the tags that carry authors in a dialect, by _process_<dialect>_field
AuthorTags(dialect) ==
    IF dialect = "pubmed" THEN {<<"A","U">>, <<"F","A","U">>}
    ELSE IF dialect = "er_terminated" THEN {<<"A","U">>, <<"A","1">>, <<"A","2">>}
    ELSE {<<"A","U">>}

\* spans of up to MaxFields author and title lines, names repeated or not
InitAuthors ==
    /\ input \in
          {[op |-> "span", dialect |-> dialect, fields |-> fields] :
              dialect \in {"pubmed", "er_terminated", "citation_export"},
              fields \in UNION {[1..n -> [tag : {<<"A","U">>, <<"F","A","U">>, <<"A","1">>,
                                                  <<"A","2">>, <<"T","I">>},
                                          value : {<<"S"," ","J">>, <<"D"," ","A">>}]] :
                                   n \in 0..MaxFields}}
    /\ \A k \in DOMAIN input.fields :
          input.fields[k].tag \in AuthorTags(input.dialect) \cup {<<"T","I">>}

\* spans of a title line and, or not, an author line after it, each value on one
\* line or continued on an indented second line
InitContinued ==
    input \in
       {[op |-> "continued", dialect |-> dialect, fields |-> SubSeq(fields, 1, n)] :
           dialect \in {"pubmed", "er_terminated", "citation_export"},
           n \in 1..2,
           fields \in
              [1..2 -> [tag : {<<"T","I">>, <<"A","U">>},
                        value : { <<"E","f"," ","o","f">>,
                                  <<"E","f","\n"," "," "," "," "," "," ","o","f">>,
                                  <<"o","n","\n"," "," "," "," "," "," ","a","\n",
                                    " "," "," "," "," "," ","b">> }]]}

\* the extractor of the span's dialect runs over the span
ExtractSpan ==
    /\ pc = "given"
    /\ input.op \in {"span", "continued"}
    /\ output' = _extract_txt_fields(SpanOf(input.dialect, input.fields), input.dialect)
    /\ pc' = "extracted"
    /\ UNCHANGED <<input, dedupVars, fetchVars>>

\* the labeled lines a full-fields file is made of, and a PubMed identifier line
LabeledLines ==
    << <<"P","M","I","D","-"," ","1">>,
       <<"T","i","t","l","e",":"," ","T">>,
       <<"A","u","t","h","o","r","s",":"," ","A"," ","B">>,
       <<"Y","e","a","r",":"," ","2","0","1","9">>,
       <<"A","b","s","t","r","a","c","t",":"," ","a","b","c","d","e","f","g","h","i","j","k">>,
       <<"D","O","I",":"," ","1","0",".","1","/","x">> >>

\* the files that hold some of the labeled lines, in that order
InitLabeled ==
    input \in {[op |-> "text",
                text |-> Join(<<"\n">>, SelectSeq(LabeledLines, LAMBDA line : line \in chosen))] :
                  chosen \in SUBSET Range(LabeledLines)}

\* TXTParser.parse on decoded text, with the format it detected and the records it
\* split the text into
ParseText ==
    /\ pc = "given"
    /\ input.op = "text"
    /\ output' = [format_type |-> _detect_format(input.text),
                  records |-> _split_records(input.text, _detect_format(input.text)),
                  articles |-> TxtArticles(input.text)]
    /\ pc' = "extracted"
    /\ UNCHANGED <<input, dedupVars, fetchVars>>

MaxPieces == 5

\* raw abstracts of up to MaxPieces pieces: a tag, words, whitespace, a character
\* that is not printable
InitAbstracts ==
    input \in
       {[op |-> "abstract", text |-> Join(<<>>, pieces)] :
           pieces \in UNION {[1..n -> { <<"<","b",">">>, <<"a","b","c","d","e","f","g","h","i">>,
                                        <<"j">>, <<" ">>, <<"\n">>, <<"NUL">> }] :
                                n \in 1..MaxPieces}}

\* an extractor cleans a raw abstract and stores what the cleaner returned
CleanAbstract ==
    /\ pc = "given"
    /\ input.op = "abstract"
    /\ output' = SetAbstract(EmptyArticle, input.text).Abstract
    /\ pc' = "extracted"
    /\ UNCHANGED <<input, dedupVars, fetchVars>>

\* raw year values of up to MaxTokens tokens: years of three centuries, a month, a
\* digit, separators
InitYears ==
    input \in
       {[op |-> "year", raw |-> Join(<<>>, tokens)] :
           tokens \in UNION {[1..n -> { <<"2","0","1","9">>, <<"1","9","9","8">>,
                                        <<"1","8","5","0">>, <<"M","a","r">>, <<"7">>,
                                        <<" ">>, <<"/">> }] : n \in 1..MaxTokens}}

\* the year every dialect of TXTParser and both paths of RISParser store for the raw
\* value of their year field
ExtractYear ==
    /\ pc = "given"
    /\ input.op = "year"
    /\ output' =
          [citation_export |->
               _process_citation_export_field(EmptyArticle, <<"Y","R">>, input.raw).Year,
           records |->
               _process_records_field(EmptyArticle, FieldPublicationYear, input.raw).Year,
           full_fields |-> _process_full_field(EmptyArticle, LabelYear, input.raw).Year,
           er_terminated |-> _process_er_field(EmptyArticle, <<"P","Y">>, input.raw).Year,
           pubmed |-> _process_pubmed_field(EmptyArticle, <<"D","P">>, input.raw).Year,
           ris |-> _extract_ris_fields("year" :> input.raw).Year,
           ris_fallback |->
               CustomArticle(<<"P","Y"," "," ","-"," ">> \o input.raw).Year]
    /\ pc' = "extracted"
    /\ UNCHANGED <<input, dedupVars, fetchVars>>

\* files of up to MaxLines lines, with or without a newline after the last one: the
\* marker lines of the dialects, an ER line, labeled lines and a tagged line
InitLines ==
    input \in
       {[op |-> "text", lines |-> lines,
         text |-> Join(<<"\n">>, lines) \o (IF newline THEN <<"\n">> ELSE <<>>)] :
           lines \in UNION {[1..n -> { <<"R","e","c","o","r","d"," ","#","1"," ","o","f"," ","2">>,
                                       <<"R","E","C","O","R","D"," ","1">>,
                                       <<"T","I","T","L","E">>,
                                       <<"E","R">>,
                                       <<"T","i","t","l","e",":"," ","T">>,
                                       <<"Y","e","a","r",":"," ","2","0","1","9">>,
                                       <<"P","M","I","D","-"," ","1">>,
                                       <<"T","I"," "," ","-"," ","T">> }] : n \in 1..MaxLines},
           newline \in BOOLEAN}

\* record spans of up to MaxFields tagged lines, as a RIS file and an ER-terminated
\* file write them
InitRisSpans ==
    input \in
       {[op |-> "ris_span", record |-> Join(<<"\n">>, lines)] :
           lines \in UNION {[1..n -> { <<"T","I"," "," ","-"," ","T"," ","x">>,
                                       <<"A","U"," "," ","-"," ","S"," ","J">>,
                                       <<"A","1"," "," ","-"," ","D"," ","A">>,
                                       <<"P","Y"," "," ","-"," ","2","0","1","9">>,
                                       <<"Y","1"," "," ","-"," ","2","0","1","8">>,
                                       <<"D","O"," "," ","-"," ","1","0",".","1","/","x">>,
                                       <<"D","I"," "," ","-"," ","1","0",".","2","/","y">>,
                                       <<"A","B"," "," ","-"," ","a","b","c","d","e","f","g",
                                         "h","i","j","k">> }] : n \in 1..MaxFields}}

\* the record the RIS fallback parser and the record the ER-terminated extractor
\* make of one span
ExtractRisSpan ==
    /\ pc = "given"
    /\ input.op = "ris_span"
    /\ output' = [fallback |-> CustomArticle(input.record),
                  er_terminated |-> _extract_er_terminated_format(input.record)]
    /\ pc' = "extracted"
    /\ UNCHANGED <<input, dedupVars, fetchVars>>

\* files of up to MaxLines lines, with or without a newline after the last one: a
\* tagged line, the two ways an ER line is written, a numbered-record marker after
\* other text, a TITLE line and an empty line
InitTerminated ==
    input \in
       {[op |-> "text", rows |-> rows,
         text |-> Join(<<"\n">>, rows) \o (IF newline THEN <<"\n">> ELSE <<>>)] :
           rows \in UNION {[1..n -> { <<"T","I"," "," ","-"," ","T">>,
                                      <<"E","R">>,
                                      <<"E","R"," "," ","-">>,
                                      <<"a"," ","R","E","C","O","R","D"," ","1">>,
                                      <<"T","I","T","L","E">>,
                                      <<>> }] : n \in 1..MaxLines},
           newline \in BOOLEAN}

InitExtract ==
    /\ \/ InitAuthors
       \/ InitLabeled
       \/ InitAbstracts
       \/ InitYears
       \/ InitLines
       \/ InitTerminated
       \/ InitContinued
       \/ InitRisSpans
    /\ output = <<>>
    /\ pc = "given"
    /\ IdleDedup
    /\ IdleFetch

NextExtract ==
    \/ ExtractSpan
    \/ ParseText
    \/ CleanAbstract
    \/ ExtractYear
    \/ ExtractRisSpan

SpecExtract == InitExtract /\ [][NextExtract]_vars

\* the values of the author lines of a span, in order of appearance
AuthorValues(dialect, fields) ==
    LET authored == SelectSeq(fields, LAMBDA f : f.tag \in AuthorTags(dialect))
    IN [k \in DOMAIN authored |-> authored[k].value]

\* C11: within one record span the author tags accumulate: Authors is the ", "-joined
\* list of all author values in order of appearance, repeated names kept, in
\* tag-pubmed (AU, FAU), tag-er-terminated (AU, A1, A2) and citation-export (AU).
C11_AuthorsAccumulate ==
    (/\ pc = "extracted"
     /\ input.op = "span"
     /\ AuthorValues(input.dialect, input.fields) # <<>>)
        => output.Authors = Join(<<",", " ">>, AuthorValues(input.dialect, input.fields))

\* the text has a line that starts with the label
HasLabel(text, label) == \E p \in DOMAIN text : LabelAt(text, p, label)

\* C12: a text detected as labeled-full-fields is one span, the whole input; with
\* Title:, Authors:, Year: and Abstract: lines and no DOI: line, parse gives one record
\* with those four fields known and the DOI unknown.
C12_LabeledIsOneSpan ==
    (pc = "extracted" /\ input.op = "text" /\ output.format_type = "full_fields")
        => /\ output.records = <<Strip(input.text)>>
           /\ (/\ \A label \in {LabelTitle, LabelAuthors, LabelYear, LabelAbstract} :
                     HasLabel(input.text, label)
               /\ ~HasLabel(input.text, LabelDoi))
                 => /\ Len(output.articles) = 1
                    /\ output.articles[1].DOI = SemInformacao
                    /\ \A field \in {"Title", "Authors", "Year", "Abstract"} :
                          output.articles[1][field] # SemInformacao

\* s holds a markup tag: "<", one or more characters other than ">", then ">"
HasTag(s) ==
    \E p, q \in DOMAIN s :
        /\ q > p + 1
        /\ s[p] = "<"
        /\ s[q] = ">"
        /\ \A k \in (p + 1)..(q - 1) : s[k] # ">"

\* s is cleaned prose: no tag, no character that is not printable, single spaces as
\* the only whitespace, none of it at either end
IsCleanProse(s) ==
    /\ ~HasTag(s)
    /\ \A k \in DOMAIN s : s[k] \notin NonPrintableChars
    /\ \A k \in DOMAIN s : IsSpace(s[k]) => s[k] = " "
    /\ \A k \in DOMAIN s : (IsSpace(s[k]) /\ k < Len(s)) => ~IsSpace(s[k + 1])
    /\ s # <<>> /\ ~IsSpace(s[1]) /\ ~IsSpace(s[Len(s)])

\* C13: abstract cleaning strips the tags, collapses every whitespace run to one
\* space, drops the characters that are not printable and trims; the result is
\* unknown exactly when 10 characters or fewer remain, else the cleaned text is stored.
C13_AbstractCleaned ==
    (pc = "extracted" /\ input.op = "abstract")
        => /\ output = SemInformacao <=> Len(CleanedAbstract(input.text)) <= 10
           /\ output # SemInformacao => (IsCleanProse(output) /\ Len(output) > 10)

\* the year of a raw value: the first 19dd or 20dd in it, else the trimmed value
\* when it is exactly four digits, else unknown
YearOf(raw) ==
    IF YearSearch(raw) # None THEN YearSearch(raw)
    ELSE IF IsFourDigits(Strip(raw)) THEN Strip(raw)
    ELSE SemInformacao

\* C14: every dialect and both RIS paths extract the year the same way: the first
\* 19dd or 20dd of the raw value, else the whole trimmed value when it is exactly
\* four digits, else unknown.
C14_YearSameEverywhere ==
    (pc = "extracted" /\ input.op = "year")
        => \A path \in DOMAIN output : output[path] = YearOf(input.raw)

\* C15: in every duplicate group of more than one member the survivor has the
\* highest quality score of the group, and of the members with that score it is the
\* one with the smallest input index.
C15_BestIsFirstOfTheBest ==
    \A g \in DOMAIN groups :
        LET members == groups[g].members
            best == groups[g].best
            score(i) == _calculate_article_quality_score(df[i])
        IN Cardinality(members) > 1
              => /\ best \in members
                 /\ \A i \in members : score(i) <= score(best)
                 /\ \A i \in members : score(i) = score(best) => best <= i

\* rows i and j of the frame are related: similar titles or the same normalized DOI
Related(i, j) ==
    \/ _titles_are_similar(_normalize_title(df[i].Title), _normalize_title(df[j].Title))
    \/ _normalize_doi(df[i].DOI) = _normalize_doi(df[j].DOI)

\* the connected component of row i in the relation over the rows with known title
\* and DOI
Component(i) ==
    LET nodes == {j \in DOMAIN df : Known(df[j])}
        grown[k \in 0..Len(df)] ==
            IF k = 0 THEN {i}
            ELSE grown[k - 1]
                   \cup {j \in nodes : \E m \in grown[k - 1] : Related(m, j)}
    IN grown[Len(df)]

\* the rows the pass put in one group with row i (row i alone if it is in no group)
GroupOf(i) ==
    IF \E g \in DOMAIN groups : i \in groups[g].members
    THEN UNION {groups[g].members : g \in {h \in DOMAIN groups : i \in groups[h].members}}
    ELSE {i}

\* C16: the groups of a finished pass are the connected components of the relation
\* (similar title or same normalized DOI) over the rows with known title and DOI, a
\* chain of related rows being one group, and the rows returned are the rows outside
\* the relation plus one row of the highest score per component.
C16_GroupsAreComponents ==
    (pc = "done" /\ run = 1)
        => /\ \A i \in DOMAIN df : Known(df[i]) => GroupOf(i) = Component(i)
           /\ \A i \in DOMAIN df :
                 Known(df[i]) =>
                    \E j \in Component(i) :
                        /\ j \notin Removed
                        /\ \A m \in Component(i) :
                              /\ _calculate_article_quality_score(df[m])
                                    <= _calculate_article_quality_score(df[j])
                              /\ m # j => m \in Removed

\* some line of the file holds the text s
SomeLineHolds(lines, s) ==
    \E k \in DOMAIN lines : \E p \in DOMAIN lines[k] : StartsWith(From(lines[k], p), s)

\* some line of the file starts with the text s
SomeLineStarts(lines, s) == \E k \in DOMAIN lines : StartsWith(lines[k], s)

\* the dialect of a file by the decision order, read line by line
DialectOf(lines) ==
    IF SomeLineHolds(lines, <<"R","e","c","o","r","d"," ","#","1"," ","o","f"," ","2">>)
    THEN "citation_export"
    ELSE IF /\ SomeLineHolds(lines, <<"R","E","C","O","R","D"," ","1">>)
            /\ \E k \in DOMAIN lines : lines[k] = <<"T","I","T","L","E">>
    THEN "records_format"
    ELSE IF \E k \in DOMAIN lines : lines[k] = <<"E","R">>
    THEN "er_terminated"
    ELSE IF Cardinality({label \in {<<"A","u","t","h","o","r">>, <<"T","i","t","l","e",":">>,
                                     <<"Y","e","a","r",":">>, <<"A","b","s","t","r","a","c","t",":">>,
                                     <<"D","O","I",":">>} : SomeLineStarts(lines, label)}) >= 2
    THEN "full_fields"
    ELSE "pubmed"

\* C17: the detector gives every text exactly one dialect, the first that matches
\* of: a "Record #n of m" marker anywhere; a "RECORD n" marker and a line that is
\* "TITLE"; a line that is "ER", wherever it stands, the first and the last line
\* included; two or more of the five line-leading labels; otherwise PubMed.
C17_DetectFirstMatch ==
    (pc = "extracted" /\ input.op = "text" /\ "lines" \in DOMAIN input)
        => output.format_type = DialectOf(input.lines)

\* the line a dialect's records start with, in the files of InitLines
MarkerOf(format_type) ==
    IF format_type = "citation_export"
    THEN <<"R","e","c","o","r","d"," ","#","1"," ","o","f"," ","2">>
    ELSE IF format_type = "records_format" THEN <<"R","E","C","O","R","D"," ","1">>
    ELSE <<"P","M","I","D","-"," ","1">>

\* the spans of a file by its lines: from each marker line to the line before the
\* next marker line, or to the last line, trimmed
SpansOf(lines, marker) ==
    LET marks == Ascending({k \in DOMAIN lines : lines[k] = marker})
    IN [j \in DOMAIN marks |->
           Strip(Join(<<"\n">>,
                      SubSeq(lines, marks[j],
                             IF j < Len(marks) THEN marks[j + 1] - 1 ELSE Len(lines))))]

\* C18: in the marker dialects (citation export, numbered records, PubMed) the
\* segmenter returns one span per marker, in input order, each from its marker to
\* the next marker or to the end of the text; the text before the first marker is in
\* no span, no span is empty, and a file without a marker gives no span.
C18_SpanPerMarker ==
    (/\ pc = "extracted" /\ input.op = "text" /\ "lines" \in DOMAIN input
     /\ output.format_type \in {"citation_export", "records_format", "pubmed"})
        => /\ output.records = SpansOf(input.lines, MarkerOf(output.format_type))
           /\ \A k \in DOMAIN output.records : output.records[k] # <<>>

\* a PubMed file with a line before its first marker and two records
C18_Witness ==
    /\ pc = "extracted" /\ input.op = "text" /\ "lines" \in DOMAIN input
    /\ output.format_type = "pubmed"
    /\ input.lines[1] # MarkerOf("pubmed")
    /\ Len(output.records) = 2

\* a value written over several lines, its lines trimmed and joined by one space
Unfolded(value) ==
    LET lines == SplitLines(value, <<>>)
    IN Join(<<" ">>, [k \in DOMAIN lines |-> Strip(lines[k])])

\* the values of the fields with the given tag, in order
ValuesOf(fields, tag) ==
    LET tagged == SelectSeq(fields, LAMBDA field : field.tag = tag)
    IN [k \in DOMAIN tagged |-> Unfolded(tagged[k].value)]

\* C19: in every dialect a line that starts no field is appended, after a space, to
\* the open field, and the open field is flushed when the next field starts or the
\* span ends: a title keeps its continuation lines, and so does every author, none
\* of it lost or given to the other field.
C19_ContinuationKept ==
    (pc = "extracted" /\ input.op = "continued")
        => /\ ValuesOf(input.fields, <<"T","I">>) # <<>>
              => output.Title = ValuesOf(input.fields, <<"T","I">>)[
                                    Len(ValuesOf(input.fields, <<"T","I">>))]
           /\ ValuesOf(input.fields, <<"A","U">>) # <<>>
              => output.Authors = Join(<<",", " ">>, ValuesOf(input.fields, <<"A","U">>))

\* C20: on every record span the RIS fallback parser yields the record the
\* ER-terminated extractor yields: the same Title, Authors (AU, A1, A2), Year (PY,
\* Y1), DOI (DI, DO) and Abstract.
C20_FallbackIsErExtractor ==
    (pc = "extracted" /\ input.op = "ris_span") => output.fallback = output.er_terminated

-----------------------------------------------------------------------------
(* The quality score of one record *)

MaxAbstractLen == 502

\* records with each field known or not, and abstracts of every length up to
\* MaxAbstractLen
InitScore ==
    /\ input \in [Title : {SemInformacao, <<"a","b">>},
                  Authors : {SemInformacao, <<"S","m","i","t","h"," ","J">>},
                  Year : {SemInformacao, <<"2","0","1","9">>},
                  DOI : {SemInformacao, <<"1","0",".","1","/","x">>},
                  Abstract : {SemInformacao}
                             \cup {[i \in 1..n |-> "a"] : n \in 1..MaxAbstractLen},
                  source_file : {"f1"}]
    /\ output = <<>>
    /\ pc = "article"
    /\ IdleDedup
    /\ IdleFetch

\* _calculate_article_quality_score on the record
ScoreArticle ==
    /\ pc = "article"
    /\ output' = [score |-> _calculate_article_quality_score(input)]
    /\ pc' = "scored"
    /\ UNCHANGED <<input, dedupVars, fetchVars>>

NextScore == ScoreArticle

SpecScore == InitScore /\ [][NextScore]_vars

\* the points a field earns when it is not the sentinel
PointsIfKnown(value, points) == IF value # SemInformacao THEN points ELSE 0

\* C21: the quality score is 10 for a known Title, 8 for known Authors, 5 for a
\* known Year, 15 for a known DOI and 20 for a known Abstract, plus 5 when the known
\* abstract has more than 500 characters or else 3 when it has more than 200; it lies
\* between 0 and 63 and the two length bonuses are never added together.
C21_QualityScore ==
    pc = "scored" =>
        LET fields == PointsIfKnown(input.Title, 10) + PointsIfKnown(input.Authors, 8)
                      + PointsIfKnown(input.Year, 5) + PointsIfKnown(input.DOI, 15)
                      + PointsIfKnown(input.Abstract, 20)
            bonus == output.score - fields
        IN /\ output.score \in 0..63
           /\ bonus \in {0, 3, 5}
           /\ bonus = 5 <=> (input.Abstract # SemInformacao /\ Len(input.Abstract) > 500)
           /\ bonus = 3 <=> /\ input.Abstract # SemInformacao
                            /\ Len(input.Abstract) > 200
                            /\ Len(input.Abstract) <= 500

\* a complete record whose abstract is longer than 500 characters has been scored
C21_Witness ==
    /\ pc = "scored"
    /\ input.Abstract # SemInformacao /\ Len(input.Abstract) > 500
    /\ input.Title # SemInformacao /\ input.DOI # SemInformacao
    /\ output.score = 63

-----------------------------------------------------------------------------
(* The reason of an audit entry *)

\* the removed row and the kept row of audit entry k
RemovedOf(k) == df[duplicates_info[k].original_index]

KeptOf(k) == df[duplicates_info[k].kept_article_index]

TitlesSimilarOf(k) ==
    _titles_are_similar(_normalize_title(RemovedOf(k).Title),
                        _normalize_title(KeptOf(k).Title))

NormalizedDoisEqualOf(k) ==
    _normalize_doi(RemovedOf(k).DOI) = _normalize_doi(KeptOf(k).DOI)

BothDoisKnownOf(k) ==
    RemovedOf(k).DOI # SemInformacao /\ KeptOf(k).DOI # SemInformacao

TagsOf(k) == Range(duplicates_info[k].reason.reasons)

\* the tags of entry k, given whether its two rows count as having the same DOI
ReasonTagsRight(k, sameDoi) ==
    /\ TagsOf(k) \subseteq {"título similar", "mesmo DOI", "critérios de duplicata"}
    /\ "título similar" \in TagsOf(k) <=> TitlesSimilarOf(k)
    /\ "mesmo DOI" \in TagsOf(k) <=> sameDoi
    /\ "critérios de duplicata" \in TagsOf(k) <=> (~TitlesSimilarOf(k) /\ ~sameDoi)
    /\ duplicates_info[k].reason.removed_score
          = _calculate_article_quality_score(RemovedOf(k))
    /\ duplicates_info[k].reason.kept_score
          = _calculate_article_quality_score(KeptOf(k))

-----------------------------------------------------------------------------
(* abstract_fetcher.py: AbstractFetcher.fetch_abstracts_batch on a frame, with   *)
(* the answers of the two remote services left open                              *)

retry_attempts == 3

MaxBatch == 3

\* AbstractFetcher._clean_doi
AbstractFetcher_clean_doi(doi) ==
    IF doi = <<>> THEN None
    ELSE LET stripped ==
                 Remove(Remove(Strip(Remove(Remove(doi, PrefixDoiLower), PrefixDoiUpper)),
                               PrefixHttps),
                        PrefixHttpDx)
         IN IF MatchesDoiPattern(stripped) THEN stripped ELSE None

\* articles_needing_abstract: the positions of the rows whose Abstract is the
\* sentinel and whose DOI is not, in the frame's order
Needing(frame) ==
    Ascending({i \in DOMAIN frame :
                 frame[i].Abstract = SemInformacao /\ frame[i].DOI # SemInformacao})

\* the row the batch loop stands at
CurrentRow == Needing(input)[idx]

\* what requests.get may give _fetch_from_crossref: status 200 with the "abstract"
\* of the message (None: no such key), status 429, another status, a
\* requests.RequestException, or an answer whose handling raises another error
CrossrefResponses ==
    {[kind |-> "ok", abstract |-> a] :
        a \in {None, <<>>, <<"<","p",">","A","b","<","/","p",">">>, <<"<","p",">"," ","<","/","p",">">>}}
    \cup {[kind |-> k, abstract |-> None] :
            k \in {"rate_limited", "other_status", "request_exception", "error"}}

\* what _fetch_from_pubmed may return
PubmedResults == {None, <<>>, <<"P","m">>}

\* a slip: the retry loop runs once more than retry_attempts
AttemptsLeftInclusive(tries) == tries <= retry_attempts

\* for attempt in range(self.retry_attempts)
AttemptsLeft(tries) == tries < retry_attempts

\* rows with and without an abstract, with no DOI, a DOI and a value that is no DOI
InitFetch ==
    /\ input \in UNION {[1..n ->
                           {Article(<<"a","b">>, SemInformacao, <<"2","0","1","9">>, doi,
                                    text, "f1") :
                              doi \in {SemInformacao,
                                       <<"d","o","i",":","1","0",".","1","/","x">>,
                                       <<"a","b","c">>},
                              text \in {SemInformacao, <<"O","l","d">>}}] : n \in 0..MaxBatch}
    /\ df = input
    /\ idx = 1
    /\ processed_ids = {}
    /\ duplicates_info = <<>>
    /\ groups = <<>>
    /\ df_cleaned = <<>>
    /\ run = 1
    /\ output = <<>>
    /\ pc = "batch"
    /\ IdleFetch

\* if total_to_fetch == 0: return articles_df, 0
ReturnNothingToFetch ==
    /\ pc = "batch"
    /\ Len(Needing(input)) = 0
    /\ output' = [articles_df |-> df, fetched_count |-> 0]
    /\ pc' = "returned"
    /\ UNCHANGED <<input, dedupVars, fetchVars>>

\* the loop over articles_needing_abstract starts
EnterBatch ==
    /\ pc = "batch"
    /\ Len(Needing(input)) > 0
    /\ pc' = "item"
    /\ UNCHANGED <<input, output, dedupVars, fetchVars>>

\* progress_callback(fetched_count, total_to_fetch, doi)
NotifyProgress ==
    /\ pc = "item"
    /\ idx <= Len(Needing(input))
    /\ calls' = Append(calls, [current |-> fetched_count,
                               total |-> Len(Needing(input)),
                               current_doi |-> input[CurrentRow].DOI])
    /\ pc' = "lookup"
    /\ UNCHANGED <<input, output, dedupVars, fetched_count, attempt, requests, lookup_abstract>>

\* fetch_abstract up to its call of _fetch_from_crossref
BeginLookup ==
    /\ pc = "lookup"
    /\ requests' = 0
    /\ attempt' = 0
    /\ lookup_abstract' = None
    /\ IF \/ ~Truthy(input[CurrentRow].DOI)
          \/ input[CurrentRow].DOI = SemInformacao
          \/ ~Truthy(AbstractFetcher_clean_doi(input[CurrentRow].DOI))
       THEN pc' = "store"
       ELSE pc' = "crossref"
    /\ UNCHANGED <<input, output, dedupVars, fetched_count, calls>>

\* one turn of the retry loop of _fetch_from_crossref: an abstract is returned, an
\* error outside requests ends the lookup, anything else goes to the next attempt
CrossrefRequest ==
    /\ pc = "crossref"
    /\ AttemptsLeft(attempt)
    /\ requests' = requests + 1
    /\ \E response \in CrossrefResponses :
          IF response.kind = "ok" /\ Truthy(response.abstract)
          THEN /\ lookup_abstract' = Strip(StripTags(response.abstract, 1))
               /\ pc' = "crossref_returned"
               /\ UNCHANGED attempt
          ELSE IF response.kind = "error"
          THEN /\ lookup_abstract' = None
               /\ pc' = "crossref_returned"
               /\ UNCHANGED attempt
          ELSE /\ attempt' = attempt + 1
               /\ UNCHANGED <<lookup_abstract, pc>>
    /\ UNCHANGED <<input, output, dedupVars, fetched_count, calls>>

\* the retry loop is over: return None
CrossrefExhausted ==
    /\ pc = "crossref"
    /\ ~AttemptsLeft(attempt)
    /\ lookup_abstract' = None
    /\ pc' = "crossref_returned"
    /\ UNCHANGED <<input, output, dedupVars, fetched_count, calls, attempt, requests>>

\* fetch_abstract: if abstract: return abstract
ReturnCrossref ==
    /\ pc = "crossref_returned"
    /\ Truthy(lookup_abstract)
    /\ pc' = "store"
    /\ UNCHANGED <<input, output, dedupVars, fetchVars>>

\* fetch_abstract goes on to _fetch_from_pubmed
ConsultPubmed ==
    /\ pc = "crossref_returned"
    /\ ~Truthy(lookup_abstract)
    /\ pc' = "pubmed"
    /\ UNCHANGED <<input, output, dedupVars, fetchVars>>

\* _fetch_from_pubmed returns, and fetch_abstract returns what it got
PubmedReturns ==
    /\ pc = "pubmed"
    /\ lookup_abstract' \in PubmedResults
    /\ pc' = "store"
    /\ UNCHANGED <<input, output, dedupVars, fetched_count, calls, attempt, requests>>

\* a slip: whatever the lookup returned is written and counted
StoreAbstractAlways ==
    /\ pc = "store"
    /\ df' = [df EXCEPT ![CurrentRow].Abstract = lookup_abstract]
    /\ fetched_count' = fetched_count + 1
    /\ idx' = idx + 1
    /\ pc' = "item"
    /\ UNCHANGED <<input, output, processed_ids, duplicates_info, groups, df_cleaned, run,
                   calls, attempt, requests, lookup_abstract>>

\* if abstract: articles_df.at[idx, "Abstract"] = abstract; fetched_count += 1
StoreAbstract ==
    /\ pc = "store"
    /\ IF Truthy(lookup_abstract)
       THEN /\ df' = [df EXCEPT ![CurrentRow].Abstract = lookup_abstract]
            /\ fetched_count' = fetched_count + 1
       ELSE UNCHANGED <<df, fetched_count>>
    /\ idx' = idx + 1
    /\ pc' = "item"
    /\ UNCHANGED <<input, output, processed_ids, duplicates_info, groups, df_cleaned, run,
                   calls, attempt, requests, lookup_abstract>>

\* return articles_df, fetched_count
BatchReturn ==
    /\ pc = "item"
    /\ idx > Len(Needing(input))
    /\ output' = [articles_df |-> df, fetched_count |-> fetched_count]
    /\ pc' = "returned"
    /\ UNCHANGED <<input, dedupVars, fetchVars>>

NextFetch ==
    \/ ReturnNothingToFetch
    \/ EnterBatch
    \/ NotifyProgress
    \/ BeginLookup
    \/ CrossrefRequest
    \/ CrossrefExhausted
    \/ ReturnCrossref
    \/ ConsultPubmed
    \/ PubmedReturns
    \/ StoreAbstract
    \/ BatchReturn

SpecFetch == InitFetch /\ [][NextFetch]_vars

\* a turn of the retry loop is taken whenever one is due: every request ends within
\* request_timeout, by an answer or by a requests.RequestException, and every sleep
\* is finite
SpecFetchLive ==
    SpecFetch /\ WF_vars(CrossrefRequest) /\ WF_vars(CrossrefExhausted)

-----------------------------------------------------------------------------
(* Properties of the abstract backfill *)

\* the rows whose Abstract the batch has written
Filled == {i \in DOMAIN df : df[i].Abstract # input[i].Abstract}

\* C23: the batch changes only the Abstract field, only of rows whose Abstract was
\* unknown and whose DOI is known, and only to the non-empty text a lookup returned:
\* a row with an abstract is never overwritten, a lookup that returned nothing leaves
\* the field unknown and the batch goes on to the next row, every other field and row
\* is unchanged, and the returned count is the number of abstracts filled.
C23_BackfillOnlyFillsMissing ==
    /\ Len(df) = Len(input)
    /\ \A i \in DOMAIN df :
          /\ [df[i] EXCEPT !.Abstract = input[i].Abstract] = input[i]
          /\ i \in Filled =>
                /\ input[i].Abstract = SemInformacao
                /\ input[i].DOI # SemInformacao
                /\ Truthy(df[i].Abstract)
                /\ \E k \in 1..(idx - 1) : Needing(input)[k] = i
    /\ (pc = "item" /\ idx > 1) =>
          df[Needing(input)[idx - 1]].Abstract =
              IF Truthy(lookup_abstract) THEN lookup_abstract ELSE SemInformacao
    /\ fetched_count = Cardinality(Filled)
    /\ pc = "returned" =>
          /\ output.articles_df = df
          /\ output.fetched_count = Cardinality(Filled)

\* a finished batch over three rows: one with an abstract of its own and a DOI, one
\* that was filled, and one whose lookup returned nothing
C23_Witness ==
    /\ pc = "returned"
    /\ output.fetched_count = 1
    /\ \E i \in DOMAIN df :
          /\ input[i].Abstract # SemInformacao
          /\ AbstractFetcher_clean_doi(input[i].DOI) # None
    /\ \E i \in DOMAIN df : i \in Filled
    /\ \E i \in DOMAIN df :
          /\ AbstractFetcher_clean_doi(input[i].DOI) # None
          /\ df[i].Abstract = SemInformacao

\* C24: progress_callback is called exactly once per row needing a lookup, before
\* that row's lookup and in the rows' order, with the number of rows done so far as
\* its first argument, which never decreases, and the number of rows needing a
\* lookup as its total.
C24_ProgressPerItem ==
    /\ pc \in {"lookup", "crossref", "crossref_returned", "pubmed", "store"}
          => Len(calls) = idx
    /\ pc = "item" => Len(calls) = idx - 1
    /\ pc = "returned" => Len(calls) = Len(Needing(input))
    /\ \A k \in DOMAIN calls :
          /\ calls[k].total = Len(Needing(input))
          /\ calls[k].current_doi = input[Needing(input)[k]].DOI
          /\ calls[k].current = k - 1
          /\ k > 1 => calls[k - 1].current <= calls[k].current

\* C30: one CrossRef lookup makes at most retry_attempts requests whatever the
\* answers are, it ends, and it returns None or a text; PubMed is consulted only
\* after CrossRef was asked and returned no abstract.
C30_CrossrefTerminates ==
    /\ [](requests <= retry_attempts)
    /\ [](pc = "crossref_returned" =>
             \/ lookup_abstract = None
             \/ lookup_abstract = Strip(StripTags(lookup_abstract, 1)))
    /\ [](pc = "pubmed" => (~Truthy(lookup_abstract) /\ requests >= 1))
    /\ ((pc = "crossref") ~> (pc = "crossref_returned"))

\* a lookup that gave up after retry_attempts requests, none of which brought an
\* abstract, and goes on to PubMed
C30_Witness ==
    /\ pc = "pubmed"
    /\ requests = retry_attempts
    /\ attempt = retry_attempts
    /\ lookup_abstract = None

-----------------------------------------------------------------------------
(* app_pt.py: the file loop of process_files.  An uploaded file is its name and   *)
(* what reading and parsing it comes to: read() raises, parse raises, or parse    *)
(* returns a list of articles.                                                     *)

MaxFiles == 3

EndsWith(s, suffix) ==
    Len(s) >= Len(suffix) /\ SubSeq(s, Len(s) - Len(suffix) + 1, Len(s)) = suffix

\* file.name.lower().endswith(".ris") / (".txt")
IsRisName(name) == EndsWith(Lower(name), <<".","r","i","s">>)

IsTxtName(name) == EndsWith(Lower(name), <<".","t","x","t">>)

\* for article in articles: article["source_file"] = file.name
Tagged(articles, name) ==
    [k \in DOMAIN articles |->
        Article(articles[k].Title, articles[k].Authors, articles[k].Year,
                articles[k].DOI, articles[k].Abstract, name)]

\* df[col].replace([None, '', 'No information'], 'Sem informação')
Replaced(value) ==
    IF value \in {None, <<>>, <<"N","o"," ","i","n","f","o","r","m","a","t","i","o","n">>}
    THEN SemInformacao ELSE value

\* df = pd.DataFrame(all_articles) with the required columns replaced
InitialFrame(all_articles) ==
    [k \in DOMAIN all_articles |->
        Article(Replaced(all_articles[k].Title), Replaced(all_articles[k].Authors),
                Replaced(all_articles[k].Year), Replaced(all_articles[k].DOI),
                Replaced(all_articles[k].Abstract), all_articles[k].source_file)]

InitFiles ==
    /\ input \in UNION {[1..n ->
            [name : {<<"a",".","r","i","s">>, <<"B",".","T","X","T">>, <<"c",".","p","d","f">>},
             raises : {"read", "parse", "nothing"},
             articles : {<<>>,
                         <<[Title |-> <<"a","b">>, Authors |-> SemInformacao,
                            Year |-> <<"2","0","1","9">>,
                            DOI |-> <<"1","0",".","1","/","x">>, Abstract |-> <<>>]>>}]]
                        : n \in 0..MaxFiles}
    /\ output = [all_articles |-> <<>>, errors |-> <<>>, warnings |-> <<>>]
    /\ pc = "files"
    /\ IdleDedup
    /\ IdleFetch

\* the file at position idx of the loop
CurrentFile == input[idx]

\* file.read() and parser.parse return: the articles are tagged and appended
FileParsed ==
    /\ pc = "files"
    /\ idx <= Len(input)
    /\ CurrentFile.raises = "nothing"
    /\ IsRisName(CurrentFile.name) \/ IsTxtName(CurrentFile.name)
    /\ output' = [output EXCEPT !.all_articles =
                      @ \o Tagged(CurrentFile.articles, CurrentFile.name)]
    /\ idx' = idx + 1
    /\ UNCHANGED <<input, pc, df, processed_ids, duplicates_info, groups, df_cleaned, run,
                   fetchVars>>

\* a slip: the error of one file leaves process_files
FileFailedAborts ==
    /\ pc = "files"
    /\ idx <= Len(input)
    /\ \/ CurrentFile.raises = "read"
       \/ /\ CurrentFile.raises = "parse"
          /\ IsRisName(CurrentFile.name) \/ IsTxtName(CurrentFile.name)
    /\ pc' = "raised"
    /\ UNCHANGED <<input, output, dedupVars, fetchVars>>

\* except Exception: st.error(...); continue
FileFailed ==
    /\ pc = "files"
    /\ idx <= Len(input)
    /\ \/ CurrentFile.raises = "read"
       \/ /\ CurrentFile.raises = "parse"
          /\ IsRisName(CurrentFile.name) \/ IsTxtName(CurrentFile.name)
    /\ output' = [output EXCEPT !.errors = Append(@, CurrentFile.name)]
    /\ idx' = idx + 1
    /\ UNCHANGED <<input, pc, df, processed_ids, duplicates_info, groups, df_cleaned, run,
                   fetchVars>>

\* neither .ris nor .txt: st.warning(...); continue
FileUnsupported ==
    /\ pc = "files"
    /\ idx <= Len(input)
    /\ CurrentFile.raises # "read"
    /\ ~IsRisName(CurrentFile.name) /\ ~IsTxtName(CurrentFile.name)
    /\ output' = [output EXCEPT !.warnings = Append(@, CurrentFile.name)]
    /\ idx' = idx + 1
    /\ UNCHANGED <<input, pc, df, processed_ids, duplicates_info, groups, df_cleaned, run,
                   fetchVars>>

\* if not all_articles: st.error(...); return
NoArticles ==
    /\ pc = "files"
    /\ idx > Len(input)
    /\ output.all_articles = <<>>
    /\ pc' = "no_articles"
    /\ UNCHANGED <<input, output, dedupVars, fetchVars>>

\* the loop is over: df = pd.DataFrame(all_articles), required columns replaced
FilesMerged ==
    /\ pc = "files"
    /\ idx > Len(input)
    /\ output.all_articles # <<>>
    /\ df' = InitialFrame(output.all_articles)
    /\ pc' = "merged"
    /\ UNCHANGED <<input, output, idx, processed_ids, duplicates_info, groups, df_cleaned,
                   run, fetchVars>>

NextFiles ==
    \/ FileParsed
    \/ FileFailed
    \/ FileUnsupported
    \/ NoArticles
    \/ FilesMerged

SpecFiles == InitFiles /\ [][NextFiles]_vars

\* file k was read and parsed without an exception
ParsedWell(k) ==
    /\ input[k].raises = "nothing"
    /\ IsRisName(input[k].name) \/ IsTxtName(input[k].name)

\* the tagged articles of the files 1..n that were read and parsed, in file order
RECURSIVE MergedUpTo(_)
MergedUpTo(n) ==
    IF n = 0 THEN <<>>
    ELSE MergedUpTo(n - 1)
         \o (IF ParsedWell(n) THEN Tagged(input[n].articles, input[n].name) ELSE <<>>)

\* C25: an exception raised while reading or parsing one file does not abort
\* process_files: the loop goes on, and the merged sequence holds the records of
\* every file read and parsed before and after it, each tagged with the name of its
\* own file.
C25_FileIsolation ==
    /\ pc \in {"files", "merged", "no_articles"}
    /\ idx <= Len(input) + 1
    /\ output.all_articles = MergedUpTo(idx - 1)
    /\ pc \in {"merged", "no_articles"} =>
          /\ idx = Len(input) + 1
          /\ \A k \in DOMAIN input :
                ParsedWell(k) =>
                    \A a \in DOMAIN input[k].articles :
                        \E j \in DOMAIN output.all_articles :
                            output.all_articles[j] =
                                Tagged(input[k].articles, input[k].name)[a]
    /\ pc = "merged" =>
          \A j \in DOMAIN df : df[j].source_file = output.all_articles[j].source_file

\* three files: the second raised, the first and the third gave a record each, and
\* both records are in the merged sequence under their own file names
C25_Witness ==
    /\ pc = "merged"
    /\ Len(input) = 3
    /\ ParsedWell(1) /\ ~ParsedWell(2) /\ ParsedWell(3)
    /\ input[2].raises = "parse" /\ IsRisName(input[2].name)
    /\ input[1].name # input[3].name
    /\ Len(output.all_articles) = 2
    /\ output.all_articles[1].source_file = input[1].name
    /\ output.all_articles[2].source_file = input[3].name
    /\ output.errors = <<input[2].name>>

-----------------------------------------------------------------------------
(* Resolved rows during the pass *)

\* the rows that are in some group so far
Grouped == UNION {groups[g].members : g \in DOMAIN groups}

\* C26: every member of a group is marked processed before the pass goes on, and
\* matches are drawn from unprocessed rows only: in every state no row is in two
\* groups, no row kept as the best of a group is removed, and no row resolved on its
\* own is removed.
C26_ResolvedStayResolved ==
    /\ \A g \in DOMAIN groups : groups[g].members \subseteq processed_ids
    /\ pc = "loop" => \A i \in 1..(idx - 1) : i \in processed_ids
    /\ \A g, h \in DOMAIN groups : g # h => groups[g].members \cap groups[h].members = {}
    /\ \A g \in DOMAIN groups : groups[g].best \notin Removed
    /\ \A i \in processed_ids \ Grouped : i \notin Removed
    /\ \A g \in DOMAIN groups :
          \A i \in groups[g].members : i >= groups[g].pivot

\* a finished pass in which a row was resolved on its own although its title is
\* similar to that of a member of an earlier group
C26_Witness ==
    /\ pc = "done"
    /\ Len(groups) = 1
    /\ \E i \in DOMAIN df \ Grouped :
          /\ Known(df[i])
          /\ i \notin Removed
          /\ \E m \in groups[1].members :
                /\ m < i
                /\ _titles_are_similar(_normalize_title(df[i].Title),
                                       _normalize_title(df[m].Title))

-----------------------------------------------------------------------------
(* DOIs that differ in letter case or by a prefix *)

\* doi without the one prefix it starts with, if any, and without surrounding
\* whitespace
Unprefixed(doi) ==
    Strip(IF StartsWith(doi, PrefixDoiLower) THEN SubSeq(doi, Len(PrefixDoiLower) + 1, Len(doi))
          ELSE IF StartsWith(doi, PrefixDoiUpper)
               THEN SubSeq(doi, Len(PrefixDoiUpper) + 1, Len(doi))
          ELSE IF StartsWith(doi, PrefixHttps)
               THEN SubSeq(doi, Len(PrefixHttps) + 1, Len(doi))
          ELSE IF StartsWith(doi, PrefixHttpDx)
               THEN SubSeq(doi, Len(PrefixHttpDx) + 1, Len(doi))
          ELSE doi)

\* two known DOIs that differ at most in letter case and in their prefix
SameButCaseAndPrefix(a, b) ==
    /\ a # SemInformacao /\ b # SemInformacao
    /\ Lower(Unprefixed(a)) = Lower(Unprefixed(b))

\* the rows at positions i and j are members of one group
GroupedTogether(i, j) ==
    \E g \in DOMAIN groups : {i, j} \subseteq groups[g].members

\* every returned row has the DOI field of the input row it is
SurvivorsKeepDoi ==
    \A j \in DOMAIN df_cleaned : df_cleaned[j].DOI = df[NthSurvivor(j)].DOI

-----------------------------------------------------------------------------
(* The rows remove_duplicates returns *)

\* C28: after remove_duplicates no two returned rows that both have a known title
\* and a known DOI have equal normalized DOIs or similar normalized titles.
C28_NoDuplicatesSurvive ==
    pc = "done" =>
        \A i, j \in DOMAIN df_cleaned :
            (i < j /\ Known(df_cleaned[i]) /\ Known(df_cleaned[j])) =>
                /\ _normalize_doi(df_cleaned[i].DOI) # _normalize_doi(df_cleaned[j].DOI)
                /\ ~_titles_are_similar(_normalize_title(df_cleaned[i].Title),
                                        _normalize_title(df_cleaned[j].Title))

-----------------------------------------------------------------------------
(* the detector and the segmenter of TXTParser on the same text *)

\* the segmenter of the ER-terminated dialect finds a terminator line in the text
HasTerminator(text) == \E p \in DOMAIN text : ErSplitMatch(text, p) > 0

\* a rule the detector tries before the ER rule matches the text
EarlierRuleMatches(text) ==
    \/ \E p \in DOMAIN text : RecordOfMatch(text, p) > 0
    \/ /\ \E p \in DOMAIN text : RecordNumberAt(text, p)
       /\ \E p \in DOMAIN text : TitleLineAt(text, p)

\* C29: the detector and the segmenter agree on record boundaries: a text the
\* detector classifies as citation export, numbered records or ER-terminated is
\* split into at least one span, and a text with a terminator line the segmenter
\* accepts ("ER", with or without a dash after it) that matches no earlier rule is
\* classified as ER-terminated.
C29_DetectorAgreesWithSegmenter ==
    (pc = "extracted" /\ input.op = "text")
        => /\ output.format_type \in {"citation_export", "records_format", "er_terminated"}
                => Len(output.records) >= 1
           /\ (HasTerminator(input.text) /\ ~EarlierRuleMatches(input.text))
                => output.format_type = "er_terminated"

=============================================================================
